---------------------------- MODULE Spec2Model ----------------------------
(***************************************************************************)
(* GestureVoice backend: the session coordinator RealisticWebSocketHandler *)
(* together with the stages it calls (SimpleRealisticSignLanguageService,  *)
(* RealisticVoiceService, Avatar3DService).                                *)
(*                                                                         *)
(* Every socket.io handler is an async function.  It runs atomically up to *)
(* its next await; every await is a point where other handlers and other   *)
(* continuations may run.  A handler invocation is a record of `calls`     *)
(* whose pc names the await it is suspended at.                            *)
(*                                                                         *)
(* Confidences are integer percentages (0.7 is 70).                        *)
(***************************************************************************)
EXTENDS Integers, Sequences, FiniteSets, TLC

(***************************************************************************)
(* Bounds of the model.                                                    *)
(***************************************************************************)
MaxCalls == 2
    \* handler invocations that exist at the same time

MaxTime == 1
    \* Date.now() ranges over 0..MaxTime

MaxTicks == 2
    \* health-check events one connection receives

MaxDisposals == 2
    \* shutdown signals the process receives

Clients == {"c1"}
    \* the socket ids of Spec; socket.io gives every connection a fresh id

(***************************************************************************)
(* Program constants.                                                      *)
(***************************************************************************)
AutoVoiceThreshold == 70
    \* signData.confidence > 0.7

GestureConfidence == 85
    \* confidence of a translation-result whose gesture was extracted

DescriptionConfidence == 60
    \* confidence of a translation-result that carries a sign description

VoiceTargetConfidence == 90
    \* confidence of a requested translation to voice

NoSignConfidence == 70
    \* confidence of a requested translation to sign when textToSign gave null

MinConfidence == 10
    \* Math.max(0.1, ...) in calculateRealisticConfidence

MaxConfidence == 100
    \* Math.min(1.0, ...) in calculateRealisticConfidence

minDuration == 100
    \* validateAudioFormat: 0.1 s, in milliseconds

maxDuration == 30000
    \* validateAudioFormat: 30 s, in milliseconds

validSampleRates == {16000, 22050, 44100, 48000}

(***************************************************************************)
(* SimpleRealisticSignLanguageService.aslGestures: name -> description and *)
(* base confidence.                                                        *)
(***************************************************************************)
aslGestureNames ==
  << "hello", "goodbye", "thank_you", "please", "yes", "no", "help", "stop",
     "water", "food", "sorry", "i_love_you", "one", "two", "three", "four",
     "five", "a", "b", "c" >>

aslGestures ==
  [ hello      |-> [description |-> "Open palm, fingers extended, gentle wave motion", confidence |-> 90],
    goodbye    |-> [description |-> "Palm facing out, fingers closing and opening", confidence |-> 85],
    thank_you  |-> [description |-> "Fingertips touch lips, then move forward", confidence |-> 80],
    please     |-> [description |-> "Open palm on chest, circular motion", confidence |-> 75],
    yes        |-> [description |-> "Fist nodding up and down", confidence |-> 85],
    no         |-> [description |-> "Index and middle finger extended, side to side motion", confidence |-> 80],
    help       |-> [description |-> "One hand supports the other, both lift up", confidence |-> 70],
    stop       |-> [description |-> "Palm forward, fingers up, firm gesture", confidence |-> 90],
    water      |-> [description |-> "W handshape near mouth", confidence |-> 80],
    food       |-> [description |-> "Fingertips to mouth", confidence |-> 80],
    sorry      |-> [description |-> "Fist on chest, circular motion", confidence |-> 80],
    i_love_you |-> [description |-> "Pinky, index, and thumb extended", confidence |-> 90],
    one        |-> [description |-> "Index finger up", confidence |-> 95],
    two        |-> [description |-> "Index and middle finger up", confidence |-> 95],
    three      |-> [description |-> "Thumb, index, middle finger up", confidence |-> 90],
    four       |-> [description |-> "Four fingers up, thumb tucked", confidence |-> 90],
    five       |-> [description |-> "All fingers extended", confidence |-> 95],
    a          |-> [description |-> "Closed fist with thumb beside", confidence |-> 80],
    b          |-> [description |-> "Flat hand, fingers up", confidence |-> 85],
    c          |-> [description |-> "Curved hand forming C shape", confidence |-> 80] ]

\* the lookup whose fallback is the empty string
getGestureDescription_noFallback(gesture) ==
  IF gesture \in DOMAIN aslGestures
    THEN aslGestures[gesture].description
    ELSE ""

getGestureDescription(gesture) ==
  IF gesture \in DOMAIN aslGestures
    THEN aslGestures[gesture].description
    ELSE "Unknown gesture"

(***************************************************************************)
(* Avatar3DService.gestureAnimations: the gestures that have an animation. *)
(***************************************************************************)
gestureAnimations ==
  { "hello", "goodbye", "thank_you", "please", "yes", "no", "help", "stop",
    "water", "food", "bathroom", "sorry", "i_love_you",
    "one", "two", "three", "four", "five", "a", "b", "c" }

(***************************************************************************)
(* RealisticVoiceService.signToVoiceTranslations: the gestures that have a *)
(* phrase of their own; every other gesture gets the fallback phrase.      *)
(***************************************************************************)
signToVoiceTranslations ==
  { "hello", "goodbye", "thank_you", "please", "yes", "no", "help", "stop",
    "sorry", "excuse_me", "how_are_you", "fine", "good_morning",
    "good_afternoon", "good_evening", "good_night", "water", "food",
    "bathroom", "doctor", "emergency", "pain", "tired", "happy", "sad",
    "confused", "understand", "dont_understand", "repeat", "slow_down",
    "family", "friend", "work", "home", "school", "money", "time", "today",
    "tomorrow", "yesterday", "zero", "one", "two", "three", "four", "five",
    "six", "seven", "eight", "nine", "ten", "a", "b", "c", "i_love_you" }

generateFallbackVoiceText(gesture) ==
  IF gesture = "unknown" \/ gesture = ""
    THEN "not sure"
    ELSE "I see the gesture"

\* the phrase generateVoiceFromGesture speaks: "phrase" for a mapped gesture
voiceTextOf(gesture) ==
  IF gesture \in signToVoiceTranslations
    THEN "phrase"
    ELSE generateFallbackVoiceText(gesture)

(***************************************************************************)
(* Gesture keyword extraction (RealisticWebSocketHandler).                 *)
(***************************************************************************)
(* Texts are sequences of one-character strings, so that toLowerCase and   *)
(* String.includes are computed character by character.                  *)
gestureKeywords ==
  << [keyword |-> <<"h","e","l","l","o">>, gesture |-> "hello"],
     [keyword |-> <<"h","i">>, gesture |-> "hello"],
     [keyword |-> <<"h","e","y">>, gesture |-> "hello"],
     [keyword |-> <<"g","o","o","d","b","y","e">>, gesture |-> "goodbye"],
     [keyword |-> <<"b","y","e">>, gesture |-> "goodbye"],
     [keyword |-> <<"s","e","e"," ","y","o","u">>, gesture |-> "goodbye"],
     [keyword |-> <<"g","o","o","d"," ","m","o","r","n","i","n","g">>, gesture |-> "good_morning"],
     [keyword |-> <<"g","o","o","d"," ","a","f","t","e","r","n","o","o","n">>, gesture |-> "good_afternoon"],
     [keyword |-> <<"g","o","o","d"," ","e","v","e","n","i","n","g">>, gesture |-> "good_evening"],
     [keyword |-> <<"g","o","o","d"," ","n","i","g","h","t">>, gesture |-> "good_night"],
     [keyword |-> <<"t","h","a","n","k"," ","y","o","u">>, gesture |-> "thank_you"],
     [keyword |-> <<"t","h","a","n","k","s">>, gesture |-> "thank_you"],
     [keyword |-> <<"t","h","a","n","k">>, gesture |-> "thank_you"],
     [keyword |-> <<"p","l","e","a","s","e">>, gesture |-> "please"],
     [keyword |-> <<"s","o","r","r","y">>, gesture |-> "sorry"],
     [keyword |-> <<"e","x","c","u","s","e"," ","m","e">>, gesture |-> "excuse_me"],
     [keyword |-> <<"y","e","s">>, gesture |-> "yes"],
     [keyword |-> <<"y","e","a","h">>, gesture |-> "yes"],
     [keyword |-> <<"o","k","a","y">>, gesture |-> "yes"],
     [keyword |-> <<"o","k">>, gesture |-> "yes"],
     [keyword |-> <<"n","o">>, gesture |-> "no"],
     [keyword |-> <<"n","o","p","e">>, gesture |-> "no"],
     [keyword |-> <<"n","o","t">>, gesture |-> "no"],
     [keyword |-> <<"h","e","l","p">>, gesture |-> "help"],
     [keyword |-> <<"s","t","o","p">>, gesture |-> "stop"],
     [keyword |-> <<"w","a","i","t">>, gesture |-> "stop"],
     [keyword |-> <<"w","a","t","e","r">>, gesture |-> "water"],
     [keyword |-> <<"d","r","i","n","k">>, gesture |-> "water"],
     [keyword |-> <<"t","h","i","r","s","t","y">>, gesture |-> "water"],
     [keyword |-> <<"f","o","o","d">>, gesture |-> "food"],
     [keyword |-> <<"e","a","t">>, gesture |-> "food"],
     [keyword |-> <<"h","u","n","g","r","y">>, gesture |-> "food"],
     [keyword |-> <<"b","a","t","h","r","o","o","m">>, gesture |-> "bathroom"],
     [keyword |-> <<"r","e","s","t","r","o","o","m">>, gesture |-> "bathroom"],
     [keyword |-> <<"t","o","i","l","e","t">>, gesture |-> "bathroom"],
     [keyword |-> <<"h","a","p","p","y">>, gesture |-> "happy"],
     [keyword |-> <<"s","a","d">>, gesture |-> "sad"],
     [keyword |-> <<"t","i","r","e","d">>, gesture |-> "tired"],
     [keyword |-> <<"p","a","i","n">>, gesture |-> "pain"],
     [keyword |-> <<"h","u","r","t">>, gesture |-> "pain"],
     [keyword |-> <<"l","o","v","e"," ","y","o","u">>, gesture |-> "i_love_you"],
     [keyword |-> <<"l","o","v","e">>, gesture |-> "i_love_you"],
     [keyword |-> <<"f","a","m","i","l","y">>, gesture |-> "family"],
     [keyword |-> <<"f","r","i","e","n","d">>, gesture |-> "friend"],
     [keyword |-> <<"h","o","m","e">>, gesture |-> "home"],
     [keyword |-> <<"w","o","r","k">>, gesture |-> "work"],
     [keyword |-> <<"s","c","h","o","o","l">>, gesture |-> "school"],
     [keyword |-> <<"t","i","m","e">>, gesture |-> "time"],
     [keyword |-> <<"t","o","d","a","y">>, gesture |-> "today"],
     [keyword |-> <<"t","o","m","o","r","r","o","w">>, gesture |-> "tomorrow"],
     [keyword |-> <<"y","e","s","t","e","r","d","a","y">>, gesture |-> "yesterday"],
     [keyword |-> <<"u","n","d","e","r","s","t","a","n","d">>, gesture |-> "understand"],
     [keyword |-> <<"c","o","n","f","u","s","e","d">>, gesture |-> "confused"],
     [keyword |-> <<"r","e","p","e","a","t">>, gesture |-> "repeat"],
     [keyword |-> <<"d","o","n","t"," ","u","n","d","e","r","s","t","a","n","d">>, gesture |-> "dont_understand"],
     [keyword |-> <<"d","o","n","'","t"," ","u","n","d","e","r","s","t","a","n","d">>, gesture |-> "dont_understand"],
     [keyword |-> <<"s","l","o","w"," ","d","o","w","n">>, gesture |-> "slow_down"],
     [keyword |-> <<"s","l","o","w","e","r">>, gesture |-> "slow_down"] >>

simulatedTranscriptions ==
  << <<"H","e","l","l","o",","," ","h","o","w"," ","a","r","e"," ","y","o","u"," ","t","o","d","a","y","?">>,
     <<"C","a","n"," ","y","o","u"," ","h","e","l","p"," ","m","e"," ","w","i","t","h"," ","s","o","m","e","t","h","i","n","g","?">>,
     <<"T","h","a","n","k"," ","y","o","u"," ","f","o","r"," ","y","o","u","r"," ","a","s","s","i","s","t","a","n","c","e",".">>,
     <<"I"," ","n","e","e","d"," ","d","i","r","e","c","t","i","o","n","s"," ","t","o"," ","t","h","e"," ","n","e","a","r","e","s","t"," ","h","o","s","p","i","t","a","l",".">>,
     <<"W","h","a","t"," ","t","i","m","e"," ","d","o","e","s"," ","t","h","e"," ","s","t","o","r","e"," ","c","l","o","s","e","?">>,
     <<"I","t","'","s"," ","a"," ","b","e","a","u","t","i","f","u","l"," ","d","a","y"," ","o","u","t","s","i","d","e",".">>,
     <<"I"," ","w","o","u","l","d"," ","l","i","k","e"," ","t","o"," ","o","r","d","e","r"," ","s","o","m","e"," ","f","o","o","d",".">>,
     <<"W","h","e","r","e"," ","c","a","n"," ","I"," ","f","i","n","d"," ","t","h","e"," ","r","e","s","t","r","o","o","m","?">>,
     <<"C","o","u","l","d"," ","y","o","u"," ","p","l","e","a","s","e"," ","s","p","e","a","k"," ","m","o","r","e"," ","s","l","o","w","l","y","?">>,
     <<"I"," ","u","n","d","e","r","s","t","a","n","d"," ","w","h","a","t"," ","y","o","u","'","r","e"," ","s","a","y","i","n","g",".">> >>

numbers ==
  << <<"z","e","r","o">>, <<"o","n","e">>, <<"t","w","o">>,
     <<"t","h","r","e","e">>, <<"f","o","u","r">>, <<"f","i","v","e">>,
     <<"s","i","x">>, <<"s","e","v","e","n">>, <<"e","i","g","h","t">>,
     <<"n","i","n","e">>, <<"t","e","n">> >>

numberNames ==
  << "zero", "one", "two", "three", "four", "five", "six", "seven", "eight",
     "nine", "ten" >>

\* i.toString() for i in 0..10, indexed from 1
digitStrings ==
  << <<"0">>, <<"1">>, <<"2">>, <<"3">>, <<"4">>, <<"5">>, <<"6">>, <<"7">>,
     <<"8">>, <<"9">>, <<"1","0">> >>

letters == << "a", "b", "c", "d", "e" >>

upperCase ==
  << "A","B","C","D","E","F","G","H","I","J","K","L","M",
     "N","O","P","Q","R","S","T","U","V","W","X","Y","Z" >>

lowerCase ==
  << "a","b","c","d","e","f","g","h","i","j","k","l","m",
     "n","o","p","q","r","s","t","u","v","w","x","y","z" >>

toLowerCase(text) ==
  [ i \in 1..Len(text) |->
      IF \E j \in 1..26 : upperCase[j] = text[i]
        THEN lowerCase[CHOOSE j \in 1..26 : upperCase[j] = text[i]]
        ELSE text[i] ]

\* String.prototype.includes
includes(text, part) ==
  \E i \in 1..(Len(text) - Len(part) + 1) :
     \A j \in 1..Len(part) : text[i + j - 1] = part[j]

\* the least index of a sequence of booleans that is TRUE, or 0
firstIndex(hits) ==
  IF \E i \in 1..Len(hits) : hits[i]
    THEN CHOOSE i \in 1..Len(hits) : hits[i] /\ \A j \in 1..(i - 1) : ~hits[j]
    ELSE 0

\* the greatest index of a sequence of booleans that is TRUE, or 0
lastIndex(hits) ==
  IF \E i \in 1..Len(hits) : hits[i]
    THEN CHOOSE i \in 1..Len(hits) :
           hits[i] /\ \A j \in (i + 1)..Len(hits) : ~hits[j]
    ELSE 0

\* the scan that keeps the last keyword found instead of returning at the
\* first
extractGestureFromText_lastKeyword(text) ==
  LET lowerText == toLowerCase(text)
      kw  == lastIndex([ i \in 1..Len(gestureKeywords) |->
                           includes(lowerText, gestureKeywords[i].keyword) ])
  IN  IF kw # 0 THEN gestureKeywords[kw].gesture ELSE ""

\* the scan of the numbers from ten down to zero
numberIndex_descending(lowerText) ==
  lastIndex([ i \in 1..Len(numbers) |->
                \/ includes(lowerText, numbers[i])
                \/ includes(lowerText, digitStrings[i]) ])

\* the loop over numbers: the index of the first number whose word or
\* digits lowerText includes, or 0
numberIndex(lowerText) ==
  firstIndex([ i \in 1..Len(numbers) |->
                 \/ includes(lowerText, numbers[i])
                 \/ includes(lowerText, digitStrings[i]) ])

\* the result is a gesture name, or "" for null
extractGestureFromText(text) ==
  LET lowerText == toLowerCase(text)
      kw  == firstIndex([ i \in 1..Len(gestureKeywords) |->
                            includes(lowerText, gestureKeywords[i].keyword) ])
      num == numberIndex(lowerText)
      ltr == firstIndex([ i \in 1..Len(letters) |->
                            \/ includes(lowerText,
                                  <<"l","e","t","t","e","r"," ">> \o <<letters[i]>>)
                            \/ lowerText = <<letters[i]>> ])
  IN  IF kw # 0 THEN gestureKeywords[kw].gesture
      ELSE IF num # 0 THEN numberNames[num]
      ELSE IF ltr # 0 THEN letters[ltr]
      ELSE ""

\* text.split(' ')
RECURSIVE split(_)
split(text) ==
  IF \E i \in 1..Len(text) : text[i] = " "
    THEN LET i == CHOOSE k \in 1..Len(text) :
                    text[k] = " " /\ \A j \in 1..(k - 1) : text[j] # " "
         IN  <<SubSeq(text, 1, i - 1)>> \o split(SubSeq(text, i + 1, Len(text)))
    ELSE <<text>>

\* the kind of description generateSignDescription builds
generateSignDescription(text) ==
  IF Len(split(text)) <= 3 THEN "Spell out" ELSE "Sign language representation"

\* the gesture extracted from each simulated transcription
transcriptionGesture ==
  [ i \in 1..Len(simulatedTranscriptions) |->
      extractGestureFromText(simulatedTranscriptions[i]) ]

transcriptionDescription ==
  [ i \in 1..Len(simulatedTranscriptions) |->
      generateSignDescription(simulatedTranscriptions[i]) ]


(***************************************************************************)
(* TranslationService: the dictionary, the word map and textToSign.        *)
(* An animation is named by its gesture.                                   *)
(***************************************************************************)
ExactScore == 90
    \* overallConfidence += 0.9, in hundredths

PartialScore == 60
    \* overallConfidence += 0.6, in hundredths

FingerspellScore == 40
    \* overallConfidence += 0.4, in hundredths

FullConfidence == 100
    \* Math.min(1, finalConfidence), in hundredths

\* the dictionary without the entry of good_morning
signLanguageDictionary_noMorning ==
  [ hello        |-> <<"wave">>,
    goodbye      |-> << >>,
    thank_you    |-> <<"thank_you">>,
    please       |-> << >>,
    sorry        |-> << >>,
    yes          |-> <<"yes">>,
    no           |-> << >>,
    help         |-> << >>,
    stop         |-> << >> ]

\* the animations of each entry of signLanguageDictionary: the builders of
\* goodbye, good_morning, please, sorry, no, help and stop return []
signLanguageDictionary ==
  [ hello        |-> <<"wave">>,
    goodbye      |-> << >>,
    good_morning |-> << >>,
    thank_you    |-> <<"thank_you">>,
    please       |-> << >>,
    sorry        |-> << >>,
    yes          |-> <<"yes">>,
    no           |-> << >>,
    help         |-> << >>,
    stop         |-> << >> ]

\* the entries of wordToGestureMap in the order of insertion
wordToGestureMap ==
  << [key |-> <<"h","e","l","l","o">>, gesture |-> "hello"],
     [key |-> <<"h","i">>, gesture |-> "hello"],
     [key |-> <<"h","e","y">>, gesture |-> "hello"],
     [key |-> <<"g","o","o","d","b","y","e">>, gesture |-> "goodbye"],
     [key |-> <<"b","y","e">>, gesture |-> "goodbye"],
     [key |-> <<"t","h","a","n","k","s">>, gesture |-> "thank_you"],
     [key |-> <<"t","h","a","n","k"," ","y","o","u">>, gesture |-> "thank_you"],
     [key |-> <<"p","l","e","a","s","e">>, gesture |-> "please"],
     [key |-> <<"s","o","r","r","y">>, gesture |-> "sorry"],
     [key |-> <<"y","e","s">>, gesture |-> "yes"],
     [key |-> <<"n","o">>, gesture |-> "no"],
     [key |-> <<"h","e","l","p">>, gesture |-> "help"],
     [key |-> <<"s","t","o","p">>, gesture |-> "stop"],
     [key |-> <<"g","o","o","d"," ","m","o","r","n","i","n","g">>, gesture |-> "good_morning"],
     [key |-> <<"m","o","r","n","i","n","g">>, gesture |-> "good_morning"] >>

whitespace == {" ", "\t"}

\* text.split(/\s+/): the tokens between the maximal runs of whitespace,
\* with an empty token before a leading and after a trailing run
RECURSIVE splitWhitespace(_)
splitWhitespace(text) ==
  IF \E i \in 1..Len(text) : text[i] \in whitespace
    THEN LET i == CHOOSE k \in 1..Len(text) :
                    /\ text[k] \in whitespace
                    /\ \A j \in 1..(k - 1) : text[j] \notin whitespace
             j == IF \E k \in (i + 1)..Len(text) : text[k] \notin whitespace
                    THEN CHOOSE k \in (i + 1)..Len(text) :
                           /\ text[k] \notin whitespace
                           /\ \A l \in (i + 1)..(k - 1) : text[l] \in whitespace
                    ELSE Len(text) + 1
         IN  <<SubSeq(text, 1, i - 1)>> \o
               splitWhitespace(SubSeq(text, j, Len(text)))
    ELSE <<text>>

\* wordToGestureMap.get(word): the gesture, or "" for undefined
wordToGesture(word) ==
  LET k == firstIndex([ i \in 1..Len(wordToGestureMap) |->
                          wordToGestureMap[i].key = word ])
  IN  IF k # 0 THEN wordToGestureMap[k].gesture ELSE ""

\* the gesture of the first key that includes the word or that the word
\* includes, or "" for null
findPartialGestureMatch(word) ==
  LET k == firstIndex([ i \in 1..Len(wordToGestureMap) |->
                          \/ includes(wordToGestureMap[i].key, word)
                          \/ includes(word, wordToGestureMap[i].key) ])
  IN  IF k # 0 THEN wordToGestureMap[k].gesture ELSE ""

\* signLanguageDictionary.get(gesture)!.animations: [] stands for the read of
\* undefined, which dereferencesMissing reports
animationsOf(gesture) ==
  IF gesture \in DOMAIN signLanguageDictionary
    THEN signLanguageDictionary[gesture]
    ELSE << >>

\* the partial match is dereferenced without the has() test of the exact
\* match: a gesture without an entry makes the read of its animations throw
dereferencesMissing(word) ==
  LET gesture == wordToGesture(word)
      partialMatch == findPartialGestureMatch(word)
  IN  /\ ~(gesture # "" /\ gesture \in DOMAIN signLanguageDictionary)
      /\ partialMatch # ""
      /\ partialMatch \notin DOMAIN signLanguageDictionary

\* the loop of textToSign throws into its catch
textToSignThrows(words) ==
  \E i \in 1..Len(words) : dereferencesMissing(words[i])

\* the loop with the substring test taken before the exact lookup
signOfWord_partialFirst(word) ==
  LET gesture == wordToGesture(word)
      partialMatch == findPartialGestureMatch(word)
  IN  IF partialMatch # ""
        THEN [animations |-> animationsOf(partialMatch),
              score |-> PartialScore]
      ELSE IF gesture # "" /\ gesture \in DOMAIN signLanguageDictionary
        THEN [animations |-> signLanguageDictionary[gesture],
              score |-> ExactScore]
      ELSE [animations |-> <<"fingerspell">>, score |-> FingerspellScore]

\* one pass of the loop of textToSign over one word: the animations pushed
\* and the score added
signOfWord(word) ==
  LET gesture == wordToGesture(word)
      partialMatch == findPartialGestureMatch(word)
  IN  IF gesture # "" /\ gesture \in DOMAIN signLanguageDictionary
        THEN [animations |-> signLanguageDictionary[gesture],
              score |-> ExactScore]
      ELSE IF partialMatch # ""
        THEN [animations |-> animationsOf(partialMatch),
              score |-> PartialScore]
      ELSE [animations |-> <<"fingerspell">>, score |-> FingerspellScore]

RECURSIVE signAnimations(_)
signAnimations(words) ==
  IF words = << >> THEN << >>
  ELSE signOfWord(Head(words)).animations \o signAnimations(Tail(words))

RECURSIVE overallConfidence(_)
overallConfidence(words) ==
  IF words = << >> THEN 0
  ELSE signOfWord(Head(words)).score + overallConfidence(Tail(words))

\* Math.min(1, .) of a quotient sum / count, kept as the pair
min1(sum, count) ==
  IF sum > FullConfidence * count THEN FullConfidence * count ELSE sum

\* the result: null (no animation, or the catch), or the animations and the confidence as the quotient
\* sum / matchCount of hundredths
textToSign(text) ==
  LET words == splitWhitespace(toLowerCase(text))
      animations == signAnimations(words)
      matchCount == Len(words)
  IN  IF textToSignThrows(words) \/ Len(animations) = 0
        THEN [null |-> TRUE, animations |-> << >>, sum |-> 0, matchCount |-> 0]
        ELSE [null |-> FALSE, animations |-> animations,
              sum |-> min1(overallConfidence(words), matchCount),
              matchCount |-> matchCount]

(***************************************************************************)
(* Inputs.                                                                 *)
(***************************************************************************)
\* The payload of a video-frame event: absent, or an object with a frame.
VideoPayloads == {"undefined", "frame"}

\* an audio-data event without payload
NoData ==
  [present |-> FALSE, hasBuffer |-> FALSE, duration |-> 0, sampleRate |-> 0,
   byteLength |-> 0]

\* The payload of an audio-data event.  present: the payload is an object;
\* hasBuffer: audioBuffer is set; duration in milliseconds.  One clip is
\* valid (the shortest valid duration); each other fails one check of
\* validateAudioFormat.
AudioPayloads ==
  { NoData,
    [present |-> TRUE, hasBuffer |-> FALSE, duration |-> 1000, sampleRate |-> 16000, byteLength |-> 0],
    [present |-> TRUE, hasBuffer |-> TRUE, duration |-> 99, sampleRate |-> 16000, byteLength |-> 8],
    [present |-> TRUE, hasBuffer |-> TRUE, duration |-> 100, sampleRate |-> 16000, byteLength |-> 8],
    [present |-> TRUE, hasBuffer |-> TRUE, duration |-> 30001, sampleRate |-> 48000, byteLength |-> 8],
    [present |-> TRUE, hasBuffer |-> TRUE, duration |-> 1000, sampleRate |-> 8000, byteLength |-> 8],
    [present |-> TRUE, hasBuffer |-> TRUE, duration |-> 1000, sampleRate |-> 44100, byteLength |-> 0] }

\* The gestures processFrame is let to pick in the model, and the values of
\* (Math.random() - 0.5) * 0.2, which lies in [-0.1, 0.1).
FrameGestures == {"help"}

Variances == {0, 9}

\* The transcriptions speechToText is let to pick: one with a gesture in it
\* ("Hello, how are you today?") and one without ("I need directions ...").
Transcriptions == {1, 4}

\* 0.85 + Math.random() * 0.1
SpeechConfidences == {90}

(***************************************************************************)
(* State.                                                                  *)
(***************************************************************************)
VARIABLES
  sockets,           \* socket id -> "new" | "open" | "closed" (transport)
  connectedClients,  \* Map: socket id -> [sessionId, lastActivity]
  processingQueue,   \* Map: <<"sign" | "voice", socket id>> -> BOOLEAN
  calls,             \* slot -> handler invocation ("free": no invocation)
  out,               \* socket id -> the events emitted on it at connect
  isProcessing,      \* RealisticVoiceService.isProcessing
  isAnimating,       \* Avatar3DService.isAnimating
  now,               \* the last value Date.now() returned
  timers,            \* socket id -> "none" | "running" | "cleared"
  disposals,         \* slot -> position of a signal handler ("free": none)
  hooks,             \* stage -> how often its dispose() was called, completed
  server,            \* httpServer: "created" | "listening" | "closed" |
                     \* "exiting" | "exited"
  boot,              \* startServer(): its position and the stages initialized
  arg,               \* the input of a function applied by itself
  ret,               \* its result
  translation,       \* TranslationService: the gesture buffer and its last call
  client             \* the frontend's WebSocketService and its sockets

vars ==
  << sockets, connectedClients, processingQueue, calls, out, isProcessing,
     isAnimating, now, timers, disposals, hooks, server, boot, arg, ret,
     translation, client >>

\* the stage services the handler disposes
Stages == {"signLanguageService", "voiceService", "avatarService"}

DisposeIds == 1..MaxDisposals

(***************************************************************************)
(* Map operations.                                                         *)
(***************************************************************************)
MapSet(m, k, v) == [ x \in (DOMAIN m) \cup {k} |-> IF x = k THEN v ELSE m[x] ]

MapDelete(m, k) == [ x \in (DOMAIN m) \ {k} |-> m[x] ]

\* Map.get(k) used as a condition: undefined and false are both falsy
MapTruthy(m, k) == k \in DOMAIN m /\ m[k]

EmptyMap == [ x \in {} |-> FALSE ]

\* one key for the frames of every client
signKey_shared(clientId) == <<"sign", "">>

signKey(clientId) == <<"sign", clientId>>

voiceKey(clientId) == <<"voice", clientId>>

generateSessionId(clientId) == <<"realistic_session", clientId>>

NoSession == <<"none", "none">>

(***************************************************************************)
(* The frontend's WebSocketService (frontend/src/services).                *)
(***************************************************************************)
MaxSockets == 6
    \* bound: the sockets connect() creates

maxReconnectAttempts == 5

ClientSockets == 1..MaxSockets

\* new WebSocketService(): no socket, no session, the counter at 0.
\* socket: this.socket, 0 for null; conn and promise: the state of the
\* socket and of the promise of each call of connect(); timers: the
\* timeouts of attemptReconnect not yet fired; delivered: how many of the
\* server's events of the connection have reached the client; sent: the
\* events the client has emitted
newWebSocketService ==
  [ socket |-> 0,
    sessionId |-> <<"", "">>,
    reconnectAttempts |-> 0,
    conn |-> [ k \in ClientSockets |-> "none" ],
    promise |-> [ k \in ClientSockets |-> "none" ],
    timers |-> 0,
    delivered |-> 0,
    sent |-> {} ]

(***************************************************************************)
(* Records.                                                                *)
(***************************************************************************)
NoSignData ==
  [present |-> FALSE, recognizedGesture |-> "", confidence |-> 0,
   sessionId |-> NoSession]

\* a handler invocation
NewCall(clientId, kind) ==
  [ client   |-> clientId,
    kind     |-> kind,            \* the inbound event
    pc       |-> "done",          \* the await the handler is suspended at
    accepted |-> FALSE,           \* passed the busy check
    data     |-> NoData,          \* the payload of an audio-data event
    signData |-> NoSignData,      \* the result of processFrame
    text     |-> 0,               \* index of the recognized or requested text
    gesture  |-> "",              \* data.gesture of a play-gesture event
    targetType |-> "",            \* data.targetType of a request-translation
    stages   |-> {},              \* the stage methods called so far
    failed   |-> {},              \* the stage methods that failed inside
    emits    |-> << >> ]          \* its socket.emit calls, in order

FreeCall == [NewCall("", "") EXCEPT !.pc = "free"]

\* a socket.emit call on the socket `to`
Event(to, name) ==
  [ to |-> to, name |-> name,
    sessionId |-> NoSession, gesture |-> "", confidence |-> -1,
    originalType |-> "", code |-> "", detail |-> "" ]

ErrorEvent(to, code) == [Event(to, "error") EXCEPT !.code = code]

CallIds == 1..MaxCalls

\* An invocation whose promise has settled ("done") stays in `calls` for one
\* step and is gone after it: every action continues from Sweep.
Sweep == [ d \in CallIds |-> IF calls[d].pc = "done" THEN FreeCall ELSE calls[d] ]

HasFreeSlot == \E d \in CallIds : Sweep[d].pc = "free"

FreeSlot ==
  CHOOSE d \in CallIds :
    Sweep[d].pc = "free" /\ \A e \in 1..(d - 1) : Sweep[e].pc # "free"

\* t: the value Date.now() returns
updateClientActivity(cc, clientId, t) ==
  IF clientId \in DOMAIN cc
    THEN [cc EXCEPT ![clientId].lastActivity = t]
    ELSE cc

\* Date.now() never goes back
Times == now..MaxTime

calculateRealisticConfidence(baseConfidence, variance) ==
  LET v == baseConfidence + variance
      lo == IF v < MaxConfidence THEN v ELSE MaxConfidence
  IN  IF lo > MinConfidence THEN lo ELSE MinConfidence

\* validateAudioFormat without the check of the buffer's length
validateAudioFormat_anyLength(audioData) ==
  IF ~audioData.present \/ ~audioData.hasBuffer
    THEN FALSE
    ELSE /\ audioData.duration >= minDuration
         /\ audioData.duration <= maxDuration
         /\ audioData.sampleRate \in validSampleRates

\* RealisticVoiceService.validateAudioFormat
validateAudioFormat(audioData) ==
  IF ~audioData.present \/ ~audioData.hasBuffer
    THEN FALSE
    ELSE /\ audioData.duration >= minDuration
         /\ audioData.duration <= maxDuration
         /\ audioData.sampleRate \in validSampleRates
         /\ audioData.byteLength > 0

\* the auto-voice condition with >= in place of >
autoVoiceGate_atLeast(signData) ==
  /\ signData.recognizedGesture # ""
  /\ signData.recognizedGesture # "unknown"
  /\ signData.confidence >= AutoVoiceThreshold

\* the condition of the auto-voice step in the video-frame handler
autoVoiceGate(signData) ==
  /\ signData.recognizedGesture # ""
  /\ signData.recognizedGesture # "unknown"
  /\ signData.confidence > AutoVoiceThreshold

\* a video-frame handler without its finally block
signFinally_missing(pq, clientId) == pq

\* the finally block of the video-frame handler
signFinally(pq, clientId) == MapSet(pq, signKey(clientId), FALSE)

\* an audio-data handler without its finally block
voiceFinally_missing(pq, clientId) == pq

\* the finally block of the audio-data handler
voiceFinally(pq, clientId) == MapSet(pq, voiceKey(clientId), FALSE)

\* an observation: the hands, the coordinates of the first hand (three
\* for each point), the fingertips above and below the wrist (y grows
\* downward: above is tip.y < wrist.y), whether the thumb tip is within 0.05
\* of the index tip in x and y, and the declared confidence
NoObservation ==
  [hands |-> 0, coordinates |-> 0, above |-> {}, below |-> {},
   pinch |-> FALSE, confidence |-> 0]

NoTranslation == [null |-> TRUE, text |-> "", confidence |-> 0, gesture |-> ""]

\* new TranslationService(): the buffer is empty and signToText has not
\* been called
newTranslationService ==
  [now |-> 0, gestureSequenceBuffer |-> << >>, called |-> FALSE,
   signData |-> NoObservation, result |-> NoTranslation]

(***************************************************************************)
(* The handler as its constructor leaves it: no connection, empty maps.    *)
(***************************************************************************)
constructorFor(clients) ==
  /\ sockets = [ c \in clients |-> "new" ]
  /\ connectedClients = [ x \in {} |-> [sessionId |-> NoSession, lastActivity |-> 0] ]
  /\ processingQueue = EmptyMap
  /\ calls = [ d \in CallIds |-> FreeCall ]
  /\ out = [ c \in clients |-> << >> ]
  /\ isProcessing = FALSE
  /\ isAnimating = FALSE
  /\ now = 0
  /\ timers = [ c \in clients |-> "none" ]
  /\ disposals = [ i \in DisposeIds |-> "free" ]
  /\ hooks = [ s \in Stages |-> [called |-> 0, completed |-> 0] ]
  /\ translation = newTranslationService
  /\ client = newWebSocketService

constructor == constructorFor(Clients)

\* startServer() has run to its end: the three stages are initialized, the
\* socket handlers are installed and the server listens
started ==
  [pc |-> "listening", initialized |-> Stages, handlers |-> TRUE,
   failed |-> {}]

\* no function is being applied by itself
NoLandmarks == [hands |-> 0, coordinates |-> 0]

NoArg == [fn |-> "none", text |-> << >>, gesture |-> "",
          landmarks |-> NoLandmarks]
NoRet == [fn |-> "none", null |-> FALSE, animations |-> << >>,
          sum |-> 0, matchCount |-> 0, gesture |-> "", description |-> "",
          pose |-> "", threw |-> FALSE]

(***************************************************************************)
(* Init: the handler after initialize(), the server listening, no          *)
(* connection yet.                                                         *)
(***************************************************************************)
Init ==
  /\ constructor
  /\ server = "listening"
  /\ boot = started
  /\ arg = NoArg
  /\ ret = NoRet

(***************************************************************************)
(* io.on('connection'): register the client and emit system-ready.         *)
(***************************************************************************)
\* RealisticSignLanguageService.getSupportedGestures: the vocabulary in the
\* order of the table
getSupportedGestures ==
  [ i \in 1..Len(aslGestureNames) |->
      [ name |-> aslGestureNames[i],
        description |-> aslGestures[aslGestureNames[i]].description,
        confidence |-> aslGestures[aslGestureNames[i]].confidence ] ]

\* RealisticVoiceService.getAvailableVoices
getAvailableVoices ==
  << [name |-> "Samantha", language |-> "en-US"],
     [name |-> "Alex", language |-> "en-US"],
     [name |-> "Victoria", language |-> "en-US"],
     [name |-> "Daniel", language |-> "en-GB"],
     [name |-> "Serena", language |-> "en-GB"],
     [name |-> "Jorge", language |-> "es-ES"],
     [name |-> "Monica", language |-> "es-ES"] >>

\* a system-ready event that does not carry the session id
systemReady_unsigned(clientId, sessionId) ==
  [ supportedGestures |-> getSupportedGestures,
    availableVoices |-> getAvailableVoices ]
  @@ Event(clientId, "system-ready")

\* socket.emit('system-ready', {...})
systemReady(clientId, sessionId) ==
  [ supportedGestures |-> getSupportedGestures,
    availableVoices |-> getAvailableVoices ]
  @@ [Event(clientId, "system-ready") EXCEPT !.sessionId = sessionId]

Connect(clientId, t) ==
  /\ sockets[clientId] = "new"
  /\ server = "listening"
  /\ boot.handlers
  /\ sockets' = [sockets EXCEPT ![clientId] = "open"]
  /\ now' = t
  /\ connectedClients' =
       MapSet(connectedClients, clientId,
              [sessionId |-> generateSessionId(clientId), lastActivity |-> t])
  /\ out' = [out EXCEPT ![clientId] =
               Append(@, systemReady(clientId, generateSessionId(clientId)))]
  /\ timers' = [timers EXCEPT ![clientId] = "running"]
  /\ calls' = Sweep
  /\ UNCHANGED <<processingQueue, isProcessing, isAnimating, disposals, hooks,
                 server, boot, arg, ret, translation, client>>

\* a disconnect that also drops the connection's suspended invocations
Disconnect_aborting(clientId) ==
  /\ sockets[clientId] = "open"
  /\ sockets' = [sockets EXCEPT ![clientId] = "closed"]
  /\ connectedClients' = MapDelete(connectedClients, clientId)
  /\ processingQueue' =
       MapDelete(MapDelete(processingQueue, signKey(clientId)), voiceKey(clientId))
  /\ calls' = [ d \in CallIds |->
                 IF Sweep[d].client = clientId THEN FreeCall ELSE Sweep[d] ]
  /\ UNCHANGED <<out, isProcessing, isAnimating, now, timers, disposals,
                 hooks, server, boot, arg, ret, translation, client>>

(***************************************************************************)
(* socket.on('disconnect')                                                 *)
(***************************************************************************)
Disconnect(clientId) ==
  /\ sockets[clientId] = "open"
  /\ sockets' = [sockets EXCEPT ![clientId] = "closed"]
  /\ connectedClients' = MapDelete(connectedClients, clientId)
  /\ processingQueue' =
       MapDelete(MapDelete(processingQueue, signKey(clientId)), voiceKey(clientId))
  /\ calls' = Sweep
  /\ UNCHANGED <<out, isProcessing, isAnimating, now, timers, disposals,
                 hooks, server, boot, arg, ret, translation, client>>

(***************************************************************************)
(* socket.on('video-frame'), up to its first await.                        *)
(*   busy: return inside try, so the finally block runs;                   *)
(*   data undefined: data.frame throws, catch emits the error;             *)
(*   otherwise the handler calls processFrame and awaits its promise.      *)
(***************************************************************************)
VideoFrame(clientId, data, t) ==
  /\ sockets[clientId] = "open"
  /\ HasFreeSlot
  /\ now' = t
  /\ LET d == FreeSlot
         call == NewCall(clientId, "video-frame")
     IN
     IF MapTruthy(processingQueue, signKey(clientId))
       THEN /\ processingQueue' = signFinally(processingQueue, clientId)
            /\ calls' = [Sweep EXCEPT ![d] = call]
            /\ connectedClients' = connectedClients
       ELSE /\ connectedClients' = updateClientActivity(connectedClients, clientId, t)
            /\ IF data = "undefined"
                 THEN /\ processingQueue' =
                           signFinally(processingQueue, clientId)
                      /\ calls' = [Sweep EXCEPT ![d] =
                           [call EXCEPT
                              !.accepted = TRUE,
                              !.emits = <<ErrorEvent(clientId,
                                            "REALISTIC_SIGN_PROCESSING_ERROR")>>]]
                 ELSE /\ processingQueue' =
                           MapSet(processingQueue, signKey(clientId), TRUE)
                      /\ calls' = [Sweep EXCEPT ![d] =
                           [call EXCEPT !.accepted = TRUE,
                                        !.pc = "awaitFrame",
                                        !.stages = {"processFrame"}]]
  /\ UNCHANGED <<sockets, out, isProcessing, isAnimating, timers, disposals,
                 hooks, server, boot, arg, ret, translation, client>>

(***************************************************************************)
(* video-frame, after await processFrame.  The result is drawn here, where *)
(* the handler receives it: null when processFrame failed inside or saw no *)
(* gesture, else a vocabulary gesture with its confidence.  With a result  *)
(* the handler emits sign-detected and calls generateAvatarPose.           *)
(***************************************************************************)
processFrameResults ==
  { [failed |-> TRUE, signData |-> NoSignData],
    [failed |-> FALSE, signData |-> NoSignData] }
  \cup
  { [failed |-> FALSE,
     signData |-> [present |-> TRUE, recognizedGesture |-> g,
                   confidence |->
                     calculateRealisticConfidence(aslGestures[g].confidence, v),
                   sessionId |-> NoSession]]
      : g \in FrameGestures, v \in Variances }

\* the result of processFrame left with the session id processFrame gave it
setSessionId_missing(signData, sessionId) == signData

\* signData.sessionId = sessionId
setSessionId(signData, sessionId) == [signData EXCEPT !.sessionId = sessionId]

VideoAfterFrame(d) ==
  /\ calls[d].pc = "awaitFrame"
  /\ LET clientId == calls[d].client
     IN
     \E r \in processFrameResults :
       LET signData == setSessionId(r.signData, generateSessionId(clientId)) IN
       IF ~r.signData.present
         THEN /\ processingQueue' =
                   signFinally(processingQueue, clientId)
              /\ calls' = [Sweep EXCEPT
                   ![d].pc = "done",
                   ![d].failed = IF r.failed THEN {"processFrame"} ELSE {}]
         ELSE /\ calls' = [Sweep EXCEPT
                   ![d].pc = "awaitPose",
                   ![d].signData = signData,
                   ![d].stages = @ \cup {"generateAvatarPose"},
                   ![d].emits = Append(@,
                     [Event(clientId, "sign-detected") EXCEPT
                        !.sessionId = signData.sessionId,
                        !.gesture = signData.recognizedGesture,
                        !.confidence = signData.confidence,
                        !.detail = getGestureDescription(
                                     signData.recognizedGesture)])]
              /\ processingQueue' = processingQueue
  /\ UNCHANGED <<sockets, connectedClients, out, isProcessing, isAnimating,
                 now, timers, disposals, hooks, server, boot, arg, ret,
                 translation, client>>

(***************************************************************************)
(* video-frame, after await generateAvatarPose, which gives the default    *)
(* pose when it failed inside: emit avatar-pose-update; above the          *)
(* threshold processSignToVoiceAuto calls generateVoiceFromGesture and so  *)
(* textToSpeech, which waits while the voice service is processing and     *)
(* then awaits the say command.                                            *)
(***************************************************************************)
poseCoordinates == 63
    \* landmarks[0].length < 63

\* the hand generateSimulatedLandmarks gives processFrame: 21 points
simulatedLandmarks == [hands |-> 1, coordinates |-> poseCoordinates]

\* the generic pose built without the test of the landmarks
generateGenericPoseFromLandmarks_unchecked(landmarks) == "generic"

\* the default pose without landmarks, without a hand or with a first hand
\* of fewer than 63 coordinates, else the pose of the bones of the hand
generateGenericPoseFromLandmarks(landmarks) ==
  IF landmarks.hands = 0 \/ landmarks.coordinates < poseCoordinates
    THEN "default"
    ELSE "generic"

\* the pose generateAvatarPose resolves with; threw: an error inside its try
generateAvatarPose(recognizedGesture, landmarks, threw) ==
  IF threw THEN "default"
  ELSE IF recognizedGesture = "" \/ recognizedGesture = "unknown"
    THEN generateGenericPoseFromLandmarks(landmarks)
  ELSE IF recognizedGesture \in gestureAnimations
    THEN "animation"
  ELSE generateGenericPoseFromLandmarks(landmarks)

generateAvatarPoseResults(signData) ==
  { [failed |-> threw,
     pose |-> generateAvatarPose(signData.recognizedGesture,
                                 simulatedLandmarks, threw)] :
      threw \in BOOLEAN }

VideoAfterPose(d) ==
  /\ calls[d].pc = "awaitPose"
  /\ LET call == calls[d]
         clientId == call.client
     IN
     \E r \in generateAvatarPoseResults(call.signData) :
       LET poseUpdate == [Event(clientId, "avatar-pose-update") EXCEPT
                            !.detail = r.pose]
           failed == IF r.failed THEN call.failed \cup {"generateAvatarPose"}
                                 ELSE call.failed
       IN
       IF autoVoiceGate(call.signData)
         THEN /\ calls' = [Sweep EXCEPT
                   ![d].pc = IF isProcessing THEN "waitTTS" ELSE "awaitTTS",
                   ![d].stages = @ \cup {"textToSpeech"},
                   ![d].failed = failed,
                   ![d].emits = Append(@, poseUpdate)]
              /\ isProcessing' = TRUE
              /\ processingQueue' = processingQueue
         ELSE /\ calls' = [Sweep EXCEPT ![d].pc = "done",
                                        ![d].failed = failed,
                                        ![d].emits = Append(@, poseUpdate)]
              /\ processingQueue' =
                   signFinally(processingQueue, clientId)
              /\ isProcessing' = isProcessing
  /\ UNCHANGED <<sockets, connectedClients, out, isAnimating, now, timers,
                 disposals, hooks, server, boot, arg, ret, translation,
                 client>>

(***************************************************************************)
(* waitForProcessing resolves (isProcessing is false, or 5 s have passed)  *)
(* and the waiting call enters its processing section.                     *)
(***************************************************************************)
WaitForProcessing(d) ==
  /\ calls[d].pc \in {"waitTTS", "waitSTT"}
  /\ calls' = [Sweep EXCEPT
                 ![d].pc = IF @ = "waitTTS" THEN "awaitTTS" ELSE "awaitSTT"]
  /\ isProcessing' = TRUE
  /\ UNCHANGED <<sockets, connectedClients, processingQueue, out, isAnimating,
                 now, timers, disposals, hooks, server, boot, arg, ret,
                 translation, client>>

(***************************************************************************)
(* video-frame, after textToSpeech settles.  Resolved (spoken, or the      *)
(* fallback notification): translation-result and auto-voice-played.       *)
(* Rejected: processSignToVoiceAuto catches and emits its error.           *)
(***************************************************************************)
textToSpeechResults == {"resolved", "rejected"}

\* processSignToVoiceAuto that emits the confirmation before the result
autoVoiceEvents_swapped(clientId, signData) ==
  << [Event(clientId, "auto-voice-played") EXCEPT
        !.gesture = signData.recognizedGesture,
        !.detail = voiceTextOf(signData.recognizedGesture),
        !.confidence = signData.confidence],
     [Event(clientId, "translation-result") EXCEPT
        !.originalType = "sign",
        !.detail = voiceTextOf(signData.recognizedGesture),
        !.confidence = signData.confidence,
        !.sessionId = signData.sessionId] >>

\* processSignToVoiceAuto after generateVoiceFromGesture resolved
autoVoiceEvents(clientId, signData) ==
  << [Event(clientId, "translation-result") EXCEPT
        !.originalType = "sign",
        !.detail = voiceTextOf(signData.recognizedGesture),
        !.confidence = signData.confidence,
        !.sessionId = signData.sessionId],
     [Event(clientId, "auto-voice-played") EXCEPT
        !.gesture = signData.recognizedGesture,
        !.detail = voiceTextOf(signData.recognizedGesture),
        !.confidence = signData.confidence] >>

\* a catch block that throws the error again, into the handler's catch
autoVoiceCatch_rethrow(clientId) ==
  << ErrorEvent(clientId, "AUTO_SIGN_TO_VOICE_ERROR"),
     ErrorEvent(clientId, "REALISTIC_SIGN_PROCESSING_ERROR") >>

\* the catch block of processSignToVoiceAuto: the error is not thrown again
autoVoiceCatch(clientId) ==
  << ErrorEvent(clientId, "AUTO_SIGN_TO_VOICE_ERROR") >>

VideoAfterSpeech(d) ==
  /\ calls[d].pc = "awaitTTS"
  /\ LET call == calls[d]
         clientId == call.client
     IN
     \E r \in textToSpeechResults :
       /\ isProcessing' = FALSE
       /\ IF r = "resolved"
            THEN calls' = [Sweep EXCEPT
                   ![d].pc = "done",
                   ![d].emits = @ \o autoVoiceEvents(clientId, call.signData)]
            ELSE calls' = [Sweep EXCEPT
                   ![d].pc = "done",
                   ![d].failed = @ \cup {"textToSpeech"},
                   ![d].emits = @ \o autoVoiceCatch(clientId)]
       /\ processingQueue' = signFinally(processingQueue, clientId)
  /\ UNCHANGED <<sockets, connectedClients, out, isAnimating, now, timers,
                 disposals, hooks, server, boot, arg, ret, translation,
                 client>>

(***************************************************************************)
(* socket.on('audio-data'), up to its first await.                         *)
(*   busy: return inside try, so the finally block runs;                   *)
(*   invalid format: emit AUDIO_FORMAT_ERROR and return (finally runs);    *)
(*   otherwise call speechToText, which waits while the voice service is   *)
(*   processing and then awaits the recognition.                           *)
(***************************************************************************)
AudioData(clientId, data, t) ==
  /\ sockets[clientId] = "open"
  /\ HasFreeSlot
  /\ now' = t
  /\ LET d == FreeSlot
         call == [NewCall(clientId, "audio-data") EXCEPT !.data = data]
     IN
     IF MapTruthy(processingQueue, voiceKey(clientId))
       THEN /\ processingQueue' = voiceFinally(processingQueue, clientId)
            /\ calls' = [Sweep EXCEPT ![d] = call]
            /\ UNCHANGED <<connectedClients, isProcessing, client>>
       ELSE /\ connectedClients' = updateClientActivity(connectedClients, clientId, t)
            /\ IF ~validateAudioFormat(data)
                 THEN /\ processingQueue' =
                           voiceFinally(processingQueue, clientId)
                      /\ calls' = [Sweep EXCEPT ![d] =
                           [call EXCEPT
                              !.accepted = TRUE,
                              !.emits = <<ErrorEvent(clientId, "AUDIO_FORMAT_ERROR")>>]]
                      /\ isProcessing' = isProcessing
                 ELSE /\ processingQueue' =
                           MapSet(processingQueue, voiceKey(clientId), TRUE)
                      /\ calls' = [Sweep EXCEPT ![d] =
                           [call EXCEPT !.accepted = TRUE,
                                        !.pc = IF isProcessing THEN "waitSTT"
                                                               ELSE "awaitSTT",
                                        !.stages = {"speechToText"}]]
                      /\ isProcessing' = TRUE
  /\ UNCHANGED <<sockets, out, isAnimating, timers, disposals, hooks, server,
                 boot, arg, ret, translation, client>>

(***************************************************************************)
(* audio-data, after speechToText settles.  Rejected: the handler's catch  *)
(* emits its error.  Resolved: emit text-recognized, then                  *)
(* processVoiceToSignAuto: with a gesture in the text it awaits            *)
(* playGestureSequence, without one it emits the sign description.         *)
(***************************************************************************)
speechToTextResults ==
  { [rejected |-> TRUE, text |-> 0, confidence |-> 0] }
  \cup
  { [rejected |-> FALSE, text |-> t, confidence |-> k]
      : t \in Transcriptions, k \in SpeechConfidences }

\* the description branch with the confidence of the gesture branch
signDescriptionEvents_sameConfidence(clientId, text) ==
  << [Event(clientId, "translation-result") EXCEPT
        !.originalType = "voice",
        !.detail = transcriptionDescription[text],
        !.confidence = GestureConfidence,
        !.sessionId = generateSessionId(clientId)],
     [Event(clientId, "sign-description") EXCEPT
        !.detail = transcriptionDescription[text]] >>

\* processVoiceToSignAuto without a gesture in the text
signDescriptionEvents(clientId, text) ==
  << [Event(clientId, "translation-result") EXCEPT
        !.originalType = "voice",
        !.detail = transcriptionDescription[text],
        !.confidence = DescriptionConfidence,
        !.sessionId = generateSessionId(clientId)],
     [Event(clientId, "sign-description") EXCEPT
        !.detail = transcriptionDescription[text]] >>

\* processVoiceToSignAuto after playGestureSequence resolved
avatarGestureEvents(clientId, gesture) ==
  << [Event(clientId, "translation-result") EXCEPT
        !.originalType = "voice",
        !.detail = "Sign gesture",
        !.gesture = gesture,
        !.confidence = GestureConfidence,
        !.sessionId = generateSessionId(clientId)],
     [Event(clientId, "auto-avatar-gesture") EXCEPT
        !.gesture = gesture,
        !.detail = getGestureDescription(gesture)] >>

AudioAfterSpeech(d) ==
  /\ calls[d].pc = "awaitSTT"
  /\ LET call == calls[d]
         clientId == call.client
     IN
     \E r \in speechToTextResults :
       /\ isProcessing' = FALSE
       /\ IF r.rejected
            THEN /\ calls' = [Sweep EXCEPT
                      ![d].pc = "done",
                      ![d].failed = @ \cup {"speechToText"},
                      ![d].emits = Append(@,
                        ErrorEvent(clientId, "REALISTIC_VOICE_PROCESSING_ERROR"))]
                 /\ processingQueue' =
                      voiceFinally(processingQueue, clientId)
                 /\ isAnimating' = isAnimating
            ELSE LET gesture == transcriptionGesture[r.text]
                     recognized ==
                       [Event(clientId, "text-recognized") EXCEPT
                          !.confidence = r.confidence,
                          !.sessionId = generateSessionId(clientId)]
                 IN
                 IF gesture # ""
                   THEN /\ calls' = [Sweep EXCEPT
                             ![d].pc = "awaitPlay",
                             ![d].text = r.text,
                             ![d].stages = @ \cup {"playGestureSequence"},
                             ![d].emits = Append(@, recognized)]
                        /\ isAnimating' = IF gesture \in gestureAnimations
                                            THEN TRUE
                                            ELSE isAnimating
                        /\ processingQueue' = processingQueue
                   ELSE /\ calls' = [Sweep EXCEPT
                             ![d].pc = "done",
                             ![d].text = r.text,
                             ![d].emits = (@ \o <<recognized>>) \o
                               signDescriptionEvents(clientId, r.text)]
                        /\ processingQueue' =
                             voiceFinally(processingQueue, clientId)
                        /\ isAnimating' = isAnimating
  /\ UNCHANGED <<sockets, connectedClients, out, now, timers, disposals,
                 hooks, server, boot, arg, ret, translation, client>>

(***************************************************************************)
(* audio-data, after playGestureSequence resolves (it resolves also when   *)
(* the gesture has no animation or the animation fails): emit the          *)
(* translation-result and auto-avatar-gesture.                             *)
(***************************************************************************)
AudioAfterPlay(d) ==
  /\ calls[d].pc = "awaitPlay"
  /\ LET call == calls[d]
         clientId == call.client
         gesture == transcriptionGesture[call.text]
     IN
     /\ isAnimating' = IF gesture \in gestureAnimations THEN FALSE ELSE isAnimating
     /\ calls' = [Sweep EXCEPT
          ![d].pc = "done",
          ![d].emits = @ \o avatarGestureEvents(clientId, gesture)]
     /\ processingQueue' = voiceFinally(processingQueue, clientId)
  /\ UNCHANGED <<sockets, connectedClients, out, isProcessing, now, timers,
                 disposals, hooks, server, boot, arg, ret, translation,
                 client>>

(***************************************************************************)
(* Specifications.                                                         *)
(***************************************************************************)
Resume(d) ==
  \/ VideoAfterFrame(d)
  \/ VideoAfterPose(d)
  \/ WaitForProcessing(d)
  \/ VideoAfterSpeech(d)
  \/ AudioAfterSpeech(d)
  \/ AudioAfterPlay(d)

Next ==
  \/ \E clientId \in DOMAIN sockets, t \in Times : Connect(clientId, t)
  \/ \E clientId \in DOMAIN sockets : Disconnect(clientId)
  \/ \E clientId \in DOMAIN sockets, data \in VideoPayloads, t \in Times :
        VideoFrame(clientId, data, t)
  \/ \E clientId \in DOMAIN sockets, data \in AudioPayloads, t \in Times :
        AudioData(clientId, data, t)
  \/ \E d \in CallIds : Resume(d)

Spec == Init /\ [][Next]_vars

\* Every stage call settles and the event loop runs every continuation.
FairSpec ==
  Spec /\ \A d \in CallIds : WF_vars(Resume(d))

TypeOK ==
  /\ \A c \in DOMAIN sockets : sockets[c] \in {"new", "open", "closed"}
  /\ DOMAIN connectedClients \subseteq DOMAIN sockets
  /\ DOMAIN processingQueue \subseteq
       { signKey(c) : c \in DOMAIN sockets } \cup
       { voiceKey(c) : c \in DOMAIN sockets }
  /\ \A k \in DOMAIN processingQueue : processingQueue[k] \in BOOLEAN
  /\ DOMAIN calls = CallIds
  /\ isProcessing \in BOOLEAN
  /\ isAnimating \in BOOLEAN
  /\ now \in 0..MaxTime
  /\ \A c \in DOMAIN timers : timers[c] \in {"none", "running", "cleared"}
  /\ \A i \in DisposeIds :
       disposals[i] \in {"free", "awaitWait", "awaitCleanup", "disposed"}
  /\ \A s \in Stages : hooks[s].completed <= hooks[s].called
  /\ server \in {"created", "listening", "closed", "exiting", "exited"}
  /\ boot.initialized \subseteq Stages
  /\ boot.failed \subseteq Stages
  /\ boot.handlers \in BOOLEAN
  /\ ret.fn \in {"none", arg.fn}

(***************************************************************************)
(* The health-check interval of a connection (setInterval, 10 s).  A tick  *)
(* emits health-check with the size of the registry and the connection's   *)
(* two flags (get(key) || false) while the connection is registered, and   *)
(* clears the interval otherwise.  The timestamp of the event is left out. *)
(***************************************************************************)
healthChecks(clientId) ==
  Cardinality({ i \in 1..Len(out[clientId]) :
                  out[clientId][i].name = "health-check" })

\* a health-check that reports one client too many
healthCheck_offByOne(clientId) ==
  [ connectedClients |-> Cardinality(DOMAIN connectedClients) + 1,
    signProcessing |-> MapTruthy(processingQueue, signKey(clientId)),
    voiceProcessing |-> MapTruthy(processingQueue, voiceKey(clientId)) ]
  @@ Event(clientId, "health-check")

healthCheck(clientId) ==
  [ connectedClients |-> Cardinality(DOMAIN connectedClients),
    signProcessing |-> MapTruthy(processingQueue, signKey(clientId)),
    voiceProcessing |-> MapTruthy(processingQueue, voiceKey(clientId)) ]
  @@ Event(clientId, "health-check")

HealthTick(clientId) ==
  /\ timers[clientId] = "running"
  /\ IF clientId \in DOMAIN connectedClients
       THEN /\ healthChecks(clientId) < MaxTicks
            /\ out' = [out EXCEPT ![clientId] = Append(@, healthCheck(clientId))]
            /\ timers' = timers
       ELSE /\ timers' = [timers EXCEPT ![clientId] = "cleared"]
            /\ out' = out
  /\ calls' = Sweep
  /\ UNCHANGED <<sockets, connectedClients, processingQueue, isProcessing,
                 isAnimating, now, disposals, hooks, server, boot, arg, ret,
                 translation, client>>

TickNext ==
  \/ Next
  \/ \E clientId \in DOMAIN sockets : HealthTick(clientId)

TickSpec == Init /\ [][TickNext]_vars

(***************************************************************************)
(* Shutdown.  process.on('SIGTERM') and process.on('SIGINT') have the same *)
(* body: await realisticWsHandler.dispose(), then httpServer.close with a  *)
(* callback that exits.  dispose() clears the two maps and calls the three *)
(* disposal hooks inside Promise.all: the hooks of the sign-language and   *)
(* the avatar service run to their end at the call, the hook of the voice  *)
(* service suspends at waitForProcessing and then at cleanupAllTempFiles.  *)
(***************************************************************************)
FreeDisposeSlot(i) ==
  /\ disposals[i] = "free"
  /\ \A j \in DisposeIds : j < i => disposals[j] # "free"

\* Promise.all([sign.dispose(), voice.dispose(), avatar.dispose()]) up to
\* the first await of voice.dispose()
disposeHooks(h) ==
  [ s \in Stages |->
      [ called |-> h[s].called + 1,
        completed |-> IF s = "voiceService" THEN h[s].completed
                                            ELSE h[s].completed + 1 ] ]

Signal(i) ==
  /\ server # "exited"
  /\ FreeDisposeSlot(i)
  /\ processingQueue' = EmptyMap
  /\ connectedClients' = [ x \in {} |-> connectedClients[x] ]
  /\ hooks' = disposeHooks(hooks)
  /\ isAnimating' = FALSE
  /\ disposals' = [disposals EXCEPT ![i] = "awaitWait"]
  /\ calls' = Sweep
  /\ UNCHANGED <<sockets, out, isProcessing, now, timers, server, boot, arg,
                 ret, translation, client>>

\* voice.dispose(): waitForProcessing resolves, cleanupAllTempFiles is called
DisposeAfterWait(i) ==
  /\ disposals[i] = "awaitWait"
  /\ disposals' = [disposals EXCEPT ![i] = "awaitCleanup"]
  /\ calls' = Sweep
  /\ UNCHANGED <<sockets, connectedClients, processingQueue, out,
                 isProcessing, isAnimating, now, timers, hooks, server, boot,
                 arg, ret, translation, client>>

\* cleanupAllTempFiles resolves: voice.dispose() and with it Promise.all and
\* dispose() complete, and the signal handler calls httpServer.close, which
\* on a server that is already closed calls the callback with an error.
DisposeAfterCleanup(i) ==
  /\ disposals[i] = "awaitCleanup"
  /\ disposals' = [disposals EXCEPT ![i] = "disposed"]
  /\ hooks' = [hooks EXCEPT !["voiceService"].completed = @ + 1]
  /\ server' = IF server = "listening" THEN "closed" ELSE "exiting"
  /\ calls' = Sweep
  /\ UNCHANGED <<sockets, connectedClients, processingQueue, out,
                 isProcessing, isAnimating, now, timers, boot, arg, ret,
                 translation, client>>

\* the callback of httpServer.close: process.exit(0), once the server has
\* closed and no connection is left, or at once on the second close
Exit ==
  /\ \/ server = "exiting"
     \/ server = "closed" /\ \A c \in DOMAIN sockets : sockets[c] # "open"
  /\ server' = "exited"
  /\ sockets' = [ c \in DOMAIN sockets |->
                    IF sockets[c] = "open" THEN "closed" ELSE sockets[c] ]
  /\ calls' = [ d \in CallIds |-> FreeCall ]
  /\ timers' = [ c \in DOMAIN timers |->
                   IF timers[c] = "running" THEN "cleared" ELSE timers[c] ]
  /\ disposals' = [ i \in DisposeIds |->
                      IF disposals[i] = "free" THEN "free" ELSE "disposed" ]
  /\ UNCHANGED <<connectedClients, processingQueue, out, isProcessing,
                 isAnimating, now, hooks, boot, arg, ret, translation, client>>

ShutdownNext ==
  \/ Next
  \/ \E i \in DisposeIds : Signal(i)
  \/ \E i \in DisposeIds : DisposeAfterWait(i)
  \/ \E i \in DisposeIds : DisposeAfterCleanup(i)
  \/ Exit

ShutdownSpec == Init /\ [][ShutdownNext]_vars


(***************************************************************************)
(* index.ts: startServer() from the load of the module to listen() or to   *)
(* process.exit(1).                                                        *)
(***************************************************************************)
\* the stages whose initialize() has nothing to await
immediateStages == {"signLanguageService", "avatarService"}

StartInit ==
  /\ constructor
  /\ server = "created"
  /\ boot = [pc |-> "load", initialized |-> {}, handlers |-> FALSE,
             failed |-> {}]
  /\ arg = NoArg
  /\ ret = NoRet

\* the catch of initialize() rethrows and the catch of initializeServer()
\* calls process.exit(1)
exit1(failed) ==
  /\ boot' = [boot EXCEPT !.pc = "exit1", !.failed = failed,
                          !.initialized = @ \cup (immediateStages \ failed)]
  /\ server' = "exited"

\* startServer() without the await of initializeServer(): listen() is
\* called while the stages initialize
StartServer_listenFirst ==
  /\ boot.pc = "load"
  /\ boot' = [boot EXCEPT !.pc = "awaitMkdir", !.initialized = immediateStages]
  /\ server' = "listening"
  /\ UNCHANGED <<sockets, connectedClients, processingQueue, calls, out,
                 isProcessing, isAnimating, now, timers, disposals, hooks,
                 arg, ret, translation, client>>

\* startServer() -> initializeServer() -> initialize(): Promise.all starts
\* the three initializations; those of the sign-language and avatar services
\* settle at once, that of the voice service awaits fs.mkdir. A rejection
\* of any of them rejects Promise.all.
StartServer ==
  /\ boot.pc = "load"
  /\ \E failed \in SUBSET immediateStages :
       IF failed = {}
         THEN /\ boot' = [boot EXCEPT !.pc = "awaitMkdir",
                                      !.initialized = immediateStages]
              /\ UNCHANGED server
         ELSE exit1(failed)
  /\ UNCHANGED <<sockets, connectedClients, processingQueue, calls, out,
                 isProcessing, isAnimating, now, timers, disposals, hooks,
                 arg, ret, translation, client>>

\* RealisticVoiceService.initialize after fs.mkdir: its rejection is
\* rethrown
StartAfterMkdir ==
  /\ boot.pc = "awaitMkdir"
  /\ \E ok \in BOOLEAN :
       IF ok
         THEN boot' = [boot EXCEPT !.pc = "awaitWhichSay"] /\ UNCHANGED server
         ELSE exit1({"voiceService"})
  /\ UNCHANGED <<sockets, connectedClients, processingQueue, calls, out,
                 isProcessing, isAnimating, now, timers, disposals, hooks,
                 arg, ret, translation, client>>

\* after `which say`: either outcome is only logged
StartAfterWhichSay ==
  /\ boot.pc = "awaitWhichSay"
  /\ boot' = [boot EXCEPT !.pc = "awaitWhichSpeech"]
  /\ UNCHANGED <<sockets, connectedClients, processingQueue, calls, out,
                 isProcessing, isAnimating, now, timers, disposals, hooks,
                 server, arg, ret, translation, client>>

\* after `which speech-recognition`: the voice service is initialized,
\* Promise.all resolves, setupSocketHandlers() installs the connection
\* handler, initializeServer() returns and startServer() calls listen()
StartAfterWhichSpeech ==
  /\ boot.pc = "awaitWhichSpeech"
  /\ boot' = [boot EXCEPT !.pc = "listening", !.initialized = Stages,
                          !.handlers = TRUE]
  /\ server' = "listening"
  /\ UNCHANGED <<sockets, connectedClients, processingQueue, calls, out,
                 isProcessing, isAnimating, now, timers, disposals, hooks,
                 arg, ret, translation, client>>

StartNext ==
  \/ StartServer
  \/ StartAfterMkdir
  \/ StartAfterWhichSay
  \/ StartAfterWhichSpeech
  \/ Next

StartSpec == StartInit /\ [][StartNext]_vars
(***************************************************************************)
(* The handlers without a busy flag: play-gesture, speak-text,             *)
(* request-translation and customize-avatar.  Each runs inside try/catch   *)
(* with its own error code; a missing payload fails at the first           *)
(* data.<field> and so in the catch block.                                 *)
(***************************************************************************)
UngatedKinds ==
  {"play-gesture", "speak-text", "request-translation", "customize-avatar"}

\* data.gesture of play-gesture, "undefined" for a missing payload
PlayPayloads == {"undefined", "hello"}

\* data.text of speak-text and request-translation: an index into the
\* transcriptions, 0 for a missing payload
TextPayloads == {0} \cup Transcriptions

\* the texts of the payloads by index: the transcriptions and, after them,
\* the word 'goodbye', for which textToSign has no animation
payloadTexts == simulatedTranscriptions \o << <<"g","o","o","d","b","y","e">> >>

\* data.text of request-translation
RequestTexts == TextPayloads \cup {Len(payloadTexts)}

payloadGesture ==
  [ i \in 1..Len(payloadTexts) |-> extractGestureFromText(payloadTexts[i]) ]

payloadSign == [ i \in 1..Len(payloadTexts) |-> textToSign(payloadTexts[i]) ]

\* translatedText: signResult.signDescription, or 'Sign representation: '
\* and the text when there is no result
translatedTextOf(signResult) ==
  IF signResult.null THEN "Sign representation" ELSE "signDescription"

\* signResult.confidence as a whole number of hundredths, rounded down
hundredths(signResult) == signResult.sum \div signResult.matchCount

TargetTypes == {"voice", "sign"}

\* the call of textToSpeech up to its first await: it waits while the voice
\* service is processing, else it sets isProcessing and awaits the command
textToSpeechPc(waiting, running) == IF isProcessing THEN waiting ELSE running

\* play-gesture with the busy check of video-frame in front
PlayGesture_gated(clientId, gesture) ==
  /\ sockets[clientId] = "open"
  /\ HasFreeSlot
  /\ ~MapTruthy(processingQueue, signKey(clientId))
  /\ LET d == FreeSlot
         call == [NewCall(clientId, "play-gesture") EXCEPT !.gesture = gesture]
     IN
     IF gesture = "undefined"
       THEN /\ calls' = [Sweep EXCEPT ![d] =
                 [call EXCEPT !.emits =
                    <<ErrorEvent(clientId, "GESTURE_ANIMATION_ERROR")>>]]
            /\ isAnimating' = isAnimating
       ELSE /\ calls' = [Sweep EXCEPT ![d] =
                 [call EXCEPT !.pc = "pgPlay",
                              !.stages = {"playGestureSequence"}]]
            /\ isAnimating' = IF gesture \in gestureAnimations THEN TRUE
                                                               ELSE isAnimating
  /\ UNCHANGED <<sockets, connectedClients, processingQueue, out,
                 isProcessing, now, timers, disposals, hooks, server, boot,
                 arg, ret, translation, client>>

\* socket.on('play-gesture'), up to await playGestureSequence
PlayGesture(clientId, gesture) ==
  /\ sockets[clientId] = "open"
  /\ HasFreeSlot
  /\ LET d == FreeSlot
         call == [NewCall(clientId, "play-gesture") EXCEPT !.gesture = gesture]
     IN
     IF gesture = "undefined"
       THEN /\ calls' = [Sweep EXCEPT ![d] =
                 [call EXCEPT !.emits =
                    <<ErrorEvent(clientId, "GESTURE_ANIMATION_ERROR")>>]]
            /\ isAnimating' = isAnimating
       ELSE /\ calls' = [Sweep EXCEPT ![d] =
                 [call EXCEPT !.pc = "pgPlay",
                              !.stages = {"playGestureSequence"}]]
            /\ isAnimating' = IF gesture \in gestureAnimations THEN TRUE
                                                               ELSE isAnimating
  /\ UNCHANGED <<sockets, connectedClients, processingQueue, out,
                 isProcessing, now, timers, disposals, hooks, server, boot,
                 arg, ret, translation, client>>

\* play-gesture, after playGestureSequence resolved: generateVoiceFromGesture
\* calls textToSpeech
PlayAfterSequence(d) ==
  /\ calls[d].pc = "pgPlay"
  /\ isAnimating' = IF calls[d].gesture \in gestureAnimations THEN FALSE
                                                              ELSE isAnimating
  /\ calls' = [Sweep EXCEPT
       ![d].pc = textToSpeechPc("pgWaitTTS", "pgTTS"),
       ![d].stages = @ \cup {"textToSpeech"}]
  /\ isProcessing' = TRUE
  /\ UNCHANGED <<sockets, connectedClients, processingQueue, out, now, timers,
                 disposals, hooks, server, boot, arg, ret, translation,
                 client>>

\* play-gesture, after textToSpeech settled: emit gesture-played, or the
\* error that generateVoiceFromGesture throws again
PlayAfterSpeech(d) ==
  /\ calls[d].pc = "pgTTS"
  /\ LET clientId == calls[d].client IN
     \E r \in textToSpeechResults :
       IF r = "resolved"
         THEN calls' = [Sweep EXCEPT
                ![d].pc = "done",
                ![d].emits = Append(@,
                  [Event(clientId, "gesture-played") EXCEPT
                     !.gesture = calls[d].gesture,
                     !.detail = voiceTextOf(calls[d].gesture)])]
         ELSE calls' = [Sweep EXCEPT
                ![d].pc = "done",
                ![d].failed = @ \cup {"textToSpeech"},
                ![d].emits = Append(@,
                  ErrorEvent(clientId, "GESTURE_ANIMATION_ERROR"))]
  /\ isProcessing' = FALSE
  /\ UNCHANGED <<sockets, connectedClients, processingQueue, out, isAnimating,
                 now, timers, disposals, hooks, server, boot, arg, ret,
                 translation, client>>

\* socket.on('speak-text'), up to await textToSpeech
SpeakText(clientId, text) ==
  /\ sockets[clientId] = "open"
  /\ HasFreeSlot
  /\ LET d == FreeSlot
         call == [NewCall(clientId, "speak-text") EXCEPT !.text = text]
     IN
     IF text = 0
       THEN /\ calls' = [Sweep EXCEPT ![d] =
                 [call EXCEPT !.emits = <<ErrorEvent(clientId, "TTS_ERROR")>>]]
            /\ isProcessing' = isProcessing
       ELSE /\ calls' = [Sweep EXCEPT ![d] =
                 [call EXCEPT !.pc = textToSpeechPc("stWaitTTS", "stTTS"),
                              !.stages = {"textToSpeech"}]]
            /\ isProcessing' = TRUE
  /\ UNCHANGED <<sockets, connectedClients, processingQueue, out, isAnimating,
                 now, timers, disposals, hooks, server, boot, arg, ret,
                 translation, client>>

\* speak-text, after textToSpeech settled
SpeakAfterSpeech(d) ==
  /\ calls[d].pc = "stTTS"
  /\ LET clientId == calls[d].client IN
     \E r \in textToSpeechResults :
       IF r = "resolved"
         THEN calls' = [Sweep EXCEPT
                ![d].pc = "done",
                ![d].emits = Append(@, Event(clientId, "speech-generated"))]
         ELSE calls' = [Sweep EXCEPT
                ![d].pc = "done",
                ![d].failed = @ \cup {"textToSpeech"},
                ![d].emits = Append(@, ErrorEvent(clientId, "TTS_ERROR"))]
  /\ isProcessing' = FALSE
  /\ UNCHANGED <<sockets, connectedClients, processingQueue, out, isAnimating,
                 now, timers, disposals, hooks, server, boot, arg, ret,
                 translation, client>>

\* the translation-result of request-translation
requestedTranslation(clientId, originalType, confidence) ==
  [Event(clientId, "translation-result") EXCEPT
     !.originalType = originalType,
     !.confidence = confidence,
     !.sessionId = generateSessionId(clientId)]

\* socket.on('request-translation'), up to its first await: textToSpeech
\* for the target voice, else translationService.textToSign
RequestTranslation(clientId, text, targetType) ==
  /\ sockets[clientId] = "open"
  /\ HasFreeSlot
  /\ LET d == FreeSlot
         call == [NewCall(clientId, "request-translation") EXCEPT
                    !.text = text, !.targetType = targetType]
     IN
     IF text = 0
       THEN /\ calls' = [Sweep EXCEPT ![d] =
                 [call EXCEPT !.targetType = "",
                              !.emits =
                                <<ErrorEvent(clientId, "TRANSLATION_ERROR")>>]]
            /\ isProcessing' = isProcessing
       ELSE IF targetType = "voice"
         THEN /\ calls' = [Sweep EXCEPT ![d] =
                   [call EXCEPT !.pc = textToSpeechPc("rtWaitTTS", "rtTTS"),
                                !.stages = {"textToSpeech"}]]
              /\ isProcessing' = TRUE
         ELSE /\ calls' = [Sweep EXCEPT ![d] =
                   [call EXCEPT !.pc = "rtTextToSign",
                                !.stages = {"textToSign"}]]
              /\ isProcessing' = isProcessing
  /\ UNCHANGED <<sockets, connectedClients, processingQueue, out, isAnimating,
                 now, timers, disposals, hooks, server, boot, arg, ret,
                 translation, client>>

\* request-translation to voice, after textToSpeech settled
TranslateAfterSpeech(d) ==
  /\ calls[d].pc = "rtTTS"
  /\ LET clientId == calls[d].client IN
     \E r \in textToSpeechResults :
       IF r = "resolved"
         THEN calls' = [Sweep EXCEPT
                ![d].pc = "done",
                ![d].emits = Append(@,
                  requestedTranslation(clientId, "sign", VoiceTargetConfidence))]
         ELSE calls' = [Sweep EXCEPT
                ![d].pc = "done",
                ![d].failed = @ \cup {"textToSpeech"},
                ![d].emits = Append(@, ErrorEvent(clientId, "TRANSLATION_ERROR"))]
  /\ isProcessing' = FALSE
  /\ UNCHANGED <<sockets, connectedClients, processingQueue, out, isAnimating,
                 now, timers, disposals, hooks, server, boot, arg, ret,
                 translation, client>>

\* request-translation to sign, after textToSign resolved: with a gesture in
\* the text await playGestureSequence, else emit the translation-result
TranslateAfterTextToSign(d) ==
  /\ calls[d].pc = "rtTextToSign"
  /\ LET clientId == calls[d].client
         gesture == payloadGesture[calls[d].text]
         signResult == payloadSign[calls[d].text]
         confidence == IF signResult.null THEN NoSignConfidence
                                          ELSE hundredths(signResult)
     IN
     IF gesture # ""
       THEN /\ calls' = [Sweep EXCEPT
                 ![d].pc = "rtPlay",
                 ![d].signData = [NoSignData EXCEPT !.confidence = confidence],
                 ![d].stages = @ \cup {"playGestureSequence"}]
            /\ isAnimating' = IF gesture \in gestureAnimations
                                THEN TRUE ELSE isAnimating
       ELSE /\ calls' = [Sweep EXCEPT
                 ![d].pc = "done",
                 ![d].emits = Append(@,
                   [requestedTranslation(clientId, "voice", confidence)
                      EXCEPT !.detail = translatedTextOf(signResult)])]
            /\ isAnimating' = isAnimating
  /\ UNCHANGED <<sockets, connectedClients, processingQueue, out,
                 isProcessing, now, timers, disposals, hooks, server, boot,
                 arg, ret, translation, client>>

\* the continuation that emits the translation-result before the gesture
TranslateAfterPlay_resultFirst(d) ==
  /\ calls[d].pc = "rtPlay"
  /\ LET clientId == calls[d].client
         gesture == payloadGesture[calls[d].text]
         avatarGesture ==
           [Event(clientId, "avatar-gesture") EXCEPT !.gesture = gesture]
         translationResult ==
           [requestedTranslation(clientId, "voice",
                                 calls[d].signData.confidence)
              EXCEPT !.detail = translatedTextOf(payloadSign[calls[d].text])]
     IN
     /\ isAnimating' = IF gesture \in gestureAnimations THEN FALSE
                                                        ELSE isAnimating
     /\ calls' = [Sweep EXCEPT
          ![d].pc = "done",
          ![d].emits = @ \o <<translationResult, avatarGesture>>]
  /\ UNCHANGED <<sockets, connectedClients, processingQueue, out,
                 isProcessing, now, timers, disposals, hooks, server, boot,
                 arg, ret, translation, client>>

\* request-translation to sign, after playGestureSequence resolved
TranslateAfterPlay(d) ==
  /\ calls[d].pc = "rtPlay"
  /\ LET clientId == calls[d].client
         gesture == payloadGesture[calls[d].text]
         avatarGesture ==
           [Event(clientId, "avatar-gesture") EXCEPT !.gesture = gesture]
         translationResult ==
           [requestedTranslation(clientId, "voice",
                                 calls[d].signData.confidence)
              EXCEPT !.detail = translatedTextOf(payloadSign[calls[d].text])]
     IN
     /\ isAnimating' = IF gesture \in gestureAnimations THEN FALSE
                                                        ELSE isAnimating
     /\ calls' = [Sweep EXCEPT
          ![d].pc = "done",
          ![d].emits = @ \o <<avatarGesture, translationResult>>]
  /\ UNCHANGED <<sockets, connectedClients, processingQueue, out,
                 isProcessing, now, timers, disposals, hooks, server, boot,
                 arg, ret, translation, client>>

\* waitForProcessing resolves for a textToSpeech call of these handlers
UngatedWait(d) ==
  /\ calls[d].pc \in {"pgWaitTTS", "stWaitTTS", "rtWaitTTS"}
  /\ calls' = [Sweep EXCEPT
       ![d].pc = IF @ = "pgWaitTTS" THEN "pgTTS"
                 ELSE IF @ = "stWaitTTS" THEN "stTTS" ELSE "rtTTS"]
  /\ isProcessing' = TRUE
  /\ UNCHANGED <<sockets, connectedClients, processingQueue, out, isAnimating,
                 now, timers, disposals, hooks, server, boot, arg, ret,
                 translation, client>>

\* socket.on('customize-avatar'): no await; present: the payload is an
\* object; t: the value Date.now() returns for the timestamp of the event
CustomizeAvatar(clientId, present, t) ==
  /\ sockets[clientId] = "open"
  /\ HasFreeSlot
  /\ now' = IF present THEN t ELSE now
  /\ calls' = [Sweep EXCEPT ![FreeSlot] =
       [NewCall(clientId, "customize-avatar") EXCEPT
          !.emits = IF present
                      THEN <<Event(clientId, "avatar-customized")>>
                      ELSE <<ErrorEvent(clientId, "AVATAR_CUSTOMIZATION_ERROR")>>]]
  /\ UNCHANGED <<sockets, connectedClients, processingQueue, out,
                 isProcessing, isAnimating, timers, disposals, hooks, server,
                 boot, arg, ret, translation, client>>

UngatedResume(d) ==
  \/ PlayAfterSequence(d)
  \/ PlayAfterSpeech(d)
  \/ SpeakAfterSpeech(d)
  \/ TranslateAfterSpeech(d)
  \/ TranslateAfterTextToSign(d)
  \/ TranslateAfterPlay(d)
  \/ UngatedWait(d)

UngatedNext ==
  \/ Next
  \/ \E clientId \in DOMAIN sockets, gesture \in PlayPayloads :
        PlayGesture(clientId, gesture)
  \/ \E clientId \in DOMAIN sockets, text \in TextPayloads :
        SpeakText(clientId, text)
  \/ \E clientId \in DOMAIN sockets, text \in RequestTexts,
        targetType \in TargetTypes :
        RequestTranslation(clientId, text, targetType)
  \/ \E clientId \in DOMAIN sockets, present \in BOOLEAN, t \in Times :
        CustomizeAvatar(clientId, present, t)
  \/ \E d \in CallIds : UngatedResume(d)

UngatedSpec == Init /\ [][UngatedNext]_vars


(***************************************************************************)
(* The functions applied by themselves: the input is drawn by Init and an  *)
(* action applies the function to it.                                      *)
(***************************************************************************)
MaxTokens == 2

tokens ==
  { <<>>,
    <<"h","e","l","l","o">>,
    <<"H","e","l","l","o">>,
    <<"g","o","o","d","b","y","e">>,
    <<"k","n","o","w">>,
    <<"x","y","z","z","y","q","q">>,
    <<"s","e","v","e","n">>,
    <<"1","0">>,
    <<"b">>,
    <<"f">>,
    <<"l","e","t","t","e","r">> }

separators == { <<" ">>, <<" ", " ">>, <<"\t">> }

RECURSIVE phrases(_)
phrases(n) ==
  IF n = 1 THEN tokens
  ELSE phrases(n - 1) \cup
       { p \o s \o t : p \in phrases(n - 1), s \in separators, t \in tokens }

thankYouSoMuch == <<"t","h","a","n","k"," ","y","o","u"," ","s","o"," ","m","u","c","h">>

Texts ==
  phrases(MaxTokens) \cup {thankYouSoMuch} \cup
  { gestureKeywords[i].keyword : i \in 1..Len(gestureKeywords) } \cup
  { simulatedTranscriptions[i] : i \in 1..Len(simulatedTranscriptions) }

\* SignLanguageService.signVocabulary: name -> descriptions
signVocabularyNames ==
  << "hello", "thank_you", "please", "yes", "no", "help", "water", "food",
     "more", "finished" >>

signVocabulary ==
  [ hello     |-> <<"Wave hand up and down">>,
    thank_you |-> <<"Touch fingertips to chin, move hand forward">>,
    please    |-> <<"Circular motion on chest with palm">>,
    yes       |-> <<"Nod hand up and down">>,
    no        |-> <<"Wave index finger side to side">>,
    help      |-> <<"Place one hand on the other, lift both">>,
    water     |-> <<"Tap index finger on chin three times">>,
    food      |-> <<"Touch fingertips to lips">>,
    more      |-> <<"Tap fingertips together repeatedly">>,
    finished  |-> <<"Shake both hands with palms facing down">> ]

\* SignLanguageService.getGestureDescription: the first description of the
\* entry
signVocabularyDescription(gesture) ==
  IF gesture \in DOMAIN signVocabulary
    THEN signVocabulary[gesture][1]
    ELSE "Unknown gesture"

absentGestures == {"", "unknown", "wave", "HELLO", "good_morning"}

\* the names extractGestureFromText can return
extractedGestures ==
  { gestureKeywords[i].gesture : i \in 1..Len(gestureKeywords) } \cup
  { numberNames[i] : i \in 1..Len(numberNames) } \cup
  { letters[i] : i \in 1..Len(letters) }

GestureArgs ==
  extractedGestures \cup
  { aslGestureNames[i] : i \in 1..Len(aslGestureNames) } \cup
  { signVocabularyNames[i] : i \in 1..Len(signVocabularyNames) } \cup
  absentGestures

PureArgs ==
  { [fn |-> f, text |-> t, gesture |-> "", landmarks |-> NoLandmarks] :
      f \in {"textToSign", "extractGestureFromText"}, t \in Texts } \cup
  { [fn |-> f, text |-> << >>, gesture |-> g, landmarks |-> NoLandmarks] :
      f \in {"getGestureDescription", "signVocabularyDescription"},
      g \in GestureArgs }

PureInit ==
  /\ constructor
  /\ server = "listening"
  /\ boot = started
  /\ arg \in PureArgs
  /\ ret = NoRet

unapplied == arg.fn # "none" /\ ret.fn = "none"

ApplyTextToSign ==
  /\ unapplied
  /\ arg.fn = "textToSign"
  /\ LET r == textToSign(arg.text)
     IN  ret' = [NoRet EXCEPT !.fn = arg.fn, !.null = r.null,
                              !.animations = r.animations, !.sum = r.sum,
                              !.matchCount = r.matchCount]
  /\ UNCHANGED <<sockets, connectedClients, processingQueue, calls, out,
                 isProcessing, isAnimating, now, timers, disposals, hooks,
                 server, boot, arg, translation, client>>

ApplyExtractGestureFromText ==
  /\ unapplied
  /\ arg.fn = "extractGestureFromText"
  /\ ret' = [NoRet EXCEPT !.fn = arg.fn,
                          !.gesture = extractGestureFromText(arg.text)]
  /\ UNCHANGED <<sockets, connectedClients, processingQueue, calls, out,
                 isProcessing, isAnimating, now, timers, disposals, hooks,
                 server, boot, arg, translation, client>>

ApplyGetGestureDescription ==
  /\ unapplied
  /\ arg.fn = "getGestureDescription"
  /\ ret' = [NoRet EXCEPT !.fn = arg.fn,
                          !.description = getGestureDescription(arg.gesture)]
  /\ UNCHANGED <<sockets, connectedClients, processingQueue, calls, out,
                 isProcessing, isAnimating, now, timers, disposals, hooks,
                 server, boot, arg, translation, client>>

ApplySignVocabularyDescription ==
  /\ unapplied
  /\ arg.fn = "signVocabularyDescription"
  /\ ret' = [NoRet EXCEPT !.fn = arg.fn,
                          !.description = signVocabularyDescription(arg.gesture)]
  /\ UNCHANGED <<sockets, connectedClients, processingQueue, calls, out,
                 isProcessing, isAnimating, now, timers, disposals, hooks,
                 server, boot, arg, translation, client>>

PureNext ==
  \/ ApplyTextToSign
  \/ ApplyExtractGestureFromText
  \/ ApplyGetGestureDescription
  \/ ApplySignVocabularyDescription

PureSpec == PureInit /\ [][PureNext]_vars

(***************************************************************************)
(* Two connections on one handler.                                         *)
(***************************************************************************)
PairClients == {"c1", "c2"}

PairInit ==
  /\ constructorFor(PairClients)
  /\ server = "listening"
  /\ boot = started
  /\ arg = NoArg
  /\ ret = NoRet

PairSpec == PairInit /\ [][Next]_vars

(***************************************************************************)
(* TranslationService.signToText and the gesture buffer.  The clock is in  *)
(* seconds.                                                                *)
(***************************************************************************)
MaxClock == 4

MaxBuffer == 2

sequenceTimeoutMs == 3
    \* 3000 ms

handCoordinates == 63
    \* 21 * 3

HelloShapeConfidence == 80

YesShapeConfidence == 85

HelpShapeConfidence == 70

ThankYouShapeConfidence == 75

UnknownShapeConfidence == 30

Fingers == {"thumb", "index", "middle", "ring", "pinky"}

\* the classification of the first hand, or null
recognizeGestureFromLandmarks(landmarks) ==
  IF landmarks.hands = 0 \/ landmarks.coordinates < handCoordinates
    THEN [null |-> TRUE, gesture |-> "", confidence |-> 0]
  ELSE IF landmarks.above = Fingers
    THEN [null |-> FALSE, gesture |-> "hello",
          confidence |-> HelloShapeConfidence]
  ELSE IF "thumb" \in landmarks.above /\ Fingers \ {"thumb"} \subseteq landmarks.below
    THEN [null |-> FALSE, gesture |-> "yes", confidence |-> YesShapeConfidence]
  ELSE IF "index" \in landmarks.above /\ Fingers \ {"index"} \subseteq landmarks.below
    THEN [null |-> FALSE, gesture |-> "help",
          confidence |-> HelpShapeConfidence]
  ELSE IF landmarks.pinch
    THEN [null |-> FALSE, gesture |-> "thank_you",
          confidence |-> ThankYouShapeConfidence]
  ELSE [null |-> FALSE, gesture |-> "unknown",
        confidence |-> UnknownShapeConfidence]

gestureToText ==
  [ hello        |-> "Hello",
    goodbye      |-> "Goodbye",
    thank_you    |-> "Thank you",
    please       |-> "Please",
    yes          |-> "Yes",
    no           |-> "No",
    help         |-> "Help",
    stop         |-> "Stop",
    good_morning |-> "Good morning" ]

phraseOf(entry) ==
  IF entry.gesture \in DOMAIN gestureToText THEN gestureToText[entry.gesture]
                                            ELSE ""

\* the phrase of the first entry of the buffer
gestureSequenceToText_oldest(buffer) ==
  IF Len(buffer) = 0 THEN "" ELSE phraseOf(buffer[1])

\* the phrase of the most recent entry of the buffer, or "" for null
gestureSequenceToText(buffer) ==
  IF Len(buffer) = 0 THEN "" ELSE phraseOf(buffer[Len(buffer)])

\* the entries younger than the window, at the clock reading t
cleanGestureBuffer(buffer, t) ==
  LET young(entry) == t - entry.timestamp < sequenceTimeoutMs
  IN  SelectSeq(buffer, young)

mathMin_larger(a, b) == IF a < b THEN b ELSE a

mathMin(a, b) == IF a < b THEN a ELSE b

\* signToText on a buffer: the buffer it leaves and the result; pushed and
\* cleaned are the two readings of Date.now()
signToText(buffer, signData, pushed, cleaned) ==
  LET gesture == recognizeGestureFromLandmarks(signData)
      kept == cleanGestureBuffer(
                Append(buffer, [gesture |-> gesture.gesture,
                                timestamp |-> pushed]), cleaned)
      translatedText == gestureSequenceToText(kept)
  IN  IF gesture.null
        THEN [gestureSequenceBuffer |-> buffer, result |-> NoTranslation]
      ELSE IF translatedText # ""
        THEN [gestureSequenceBuffer |-> kept,
              result |-> [null |-> FALSE, text |-> translatedText,
                          confidence |-> mathMin(gesture.confidence,
                                                 signData.confidence),
                          gesture |-> gesture.gesture]]
      ELSE [gestureSequenceBuffer |-> kept, result |-> NoTranslation]

\* the positions of the fingertips the observations are drawn from: the
\* open hand, thumb up, index up, a pinch, a fist, an open hand that
\* pinches, and the thumb level with the wrist
Shapes ==
  { [above |-> Fingers, below |-> {}, pinch |-> FALSE],
    [above |-> {"thumb"}, below |-> Fingers \ {"thumb"}, pinch |-> FALSE],
    [above |-> {"index"}, below |-> Fingers \ {"index"}, pinch |-> FALSE],
    [above |-> {}, below |-> Fingers, pinch |-> TRUE],
    [above |-> {}, below |-> Fingers, pinch |-> FALSE],
    [above |-> Fingers, below |-> {}, pinch |-> TRUE],
    [above |-> {}, below |-> Fingers \ {"thumb"}, pinch |-> FALSE] }

DeclaredConfidences == {50, 90}

Observations ==
  { [NoObservation EXCEPT !.confidence = c] : c \in DeclaredConfidences } \cup
  { [hands |-> 1, coordinates |-> handCoordinates - 1, above |-> Fingers,
     below |-> {}, pinch |-> FALSE, confidence |-> c] :
      c \in DeclaredConfidences } \cup
  { [hands |-> 1, coordinates |-> handCoordinates, above |-> s.above,
     below |-> s.below, pinch |-> s.pinch, confidence |-> c] :
      s \in Shapes, c \in DeclaredConfidences }

\* a call of signToText: it has no await
SignToText(signData, pushed, cleaned) ==
  /\ LET r == signToText(translation.gestureSequenceBuffer, signData,
                         pushed, cleaned)
     IN  /\ Len(r.gestureSequenceBuffer) <= MaxBuffer
         /\ translation' =
             [now |-> cleaned,
              gestureSequenceBuffer |-> r.gestureSequenceBuffer,
              called |-> TRUE, signData |-> signData, result |-> r.result]
  /\ UNCHANGED <<sockets, connectedClients, processingQueue, calls, out,
                 isProcessing, isAnimating, now, timers, disposals, hooks,
                 server, boot, arg, ret, client>>

\* the second reading of the clock is the first or the next tick
SignNext ==
  \E signData \in Observations, pushed \in translation.now..MaxClock :
    \E cleaned \in {pushed, pushed + 1} :
       cleaned <= MaxClock /\ SignToText(signData, pushed, cleaned)

SignSpec == Init /\ [][SignNext]_vars
(***************************************************************************)
(* Avatar3DService under its callers: generateAvatarPose applied by        *)
(* itself, and the handlers that await it (video-frame) and                *)
(* playGestureSequence (play-gesture), the latter also for a gesture that  *)
(* has no animation.                                                       *)
(***************************************************************************)
\* landmarks of generateAvatarPose: none, a short first hand, a full hand
AvatarLandmarks ==
  { NoLandmarks,
    [hands |-> 1, coordinates |-> poseCoordinates - 1],
    simulatedLandmarks }

\* recognizedGesture: missing, 'unknown', with and without an animation
AvatarGestures == {"", "unknown", "hello", "good_morning"}

AvatarArgs ==
  { [fn |-> "generateAvatarPose", text |-> << >>, gesture |-> g,
     landmarks |-> l] : g \in AvatarGestures, l \in AvatarLandmarks }

\* data.gesture of play-gesture: with and without an animation
AvatarPlayPayloads == {"hello", "good_morning"}

AvatarInit ==
  /\ constructor
  /\ server = "listening"
  /\ boot = started
  /\ arg \in AvatarArgs
  /\ ret = NoRet

ApplyGenerateAvatarPose(threw) ==
  /\ unapplied
  /\ arg.fn = "generateAvatarPose"
  /\ ret' = [NoRet EXCEPT !.fn = arg.fn, !.threw = threw,
                          !.pose = generateAvatarPose(arg.gesture,
                                                      arg.landmarks, threw)]
  /\ UNCHANGED <<sockets, connectedClients, processingQueue, calls, out,
                 isProcessing, isAnimating, now, timers, disposals, hooks,
                 server, boot, arg, translation, client>>

AvatarNext ==
  \/ \E threw \in BOOLEAN : ApplyGenerateAvatarPose(threw)
  \/ \E clientId \in DOMAIN sockets, t \in Times : Connect(clientId, t)
  \/ \E clientId \in DOMAIN sockets, data \in VideoPayloads, t \in Times :
        VideoFrame(clientId, data, t)
  \/ \E clientId \in DOMAIN sockets, gesture \in AvatarPlayPayloads :
        PlayGesture(clientId, gesture)
  \/ \E d \in CallIds :
        \/ VideoAfterFrame(d)
        \/ VideoAfterPose(d)
        \/ WaitForProcessing(d)
        \/ VideoAfterSpeech(d)
        \/ PlayAfterSequence(d)
        \/ UngatedWait(d)
        \/ PlayAfterSpeech(d)

AvatarSpec == AvatarInit /\ [][AvatarNext]_vars

(***************************************************************************)
(* WebSocketService: connect(), the handlers it installs on its socket,    *)
(* attemptReconnect, the send methods and disconnect().                    *)
(***************************************************************************)
\* the events RealisticWebSocketHandler installs a handler for
socketHandlers ==
  { "video-frame", "audio-data", "play-gesture", "speak-text",
    "request-translation", "customize-avatar", "disconnect", "error" }

\* the events of sendVideoFrame, sendAudioData, generateSignLanguage and
\* textToSpeech
sendMethods == {"video-frame", "audio-data", "generate-sign", "text-to-speech"}

\* the reasons of the 'disconnect' event of the socket
Reasons == {"io server disconnect", "transport close"}

\* the server socket the first socket of the client is connected to
serverSocket == "c1"

\* connect(): a new socket that starts to connect, and a pending promise
ClientConnect(k) ==
  /\ client.conn[k] = "none"
  /\ \A j \in 1..(k - 1) : client.conn[j] # "none"
  /\ client' = [client EXCEPT !.socket = k,
                              !.conn[k] = "connecting",
                              !.promise[k] = "pending"]
  /\ UNCHANGED <<sockets, connectedClients, processingQueue, calls, out,
                 isProcessing, isAnimating, now, timers, disposals, hooks,
                 server, boot, arg, ret, translation>>

\* socket.on('connect')
OnConnect(k) ==
  /\ client.conn[k] = "connecting"
  /\ client' = [client EXCEPT !.reconnectAttempts = 0,
                              !.conn[k] = "connected"]
  /\ UNCHANGED <<sockets, connectedClients, processingQueue, calls, out,
                 isProcessing, isAnimating, now, timers, disposals, hooks,
                 server, boot, arg, ret, translation>>

\* socket.on('connect_error'): the promise is rejected (no effect on a
\* settled promise) and the socket goes on trying
OnConnectError(k) ==
  /\ client.conn[k] = "connecting"
  /\ client' = [client EXCEPT
                  !.promise[k] = IF @ = "pending" THEN "rejected" ELSE @]
  /\ UNCHANGED <<sockets, connectedClients, processingQueue, calls, out,
                 isProcessing, isAnimating, now, timers, disposals, hooks,
                 server, boot, arg, ret, translation>>

\* the next event the server emitted on the connection reaches the client:
\* socket.on('connected') takes the session id and resolves the promise;
\* the other events change nothing in the service
OnServerEvent(k) ==
  /\ client.conn[k] = "connected"
  /\ client.delivered < Len(out[serverSocket])
  /\ LET event == out[serverSocket][client.delivered + 1]
     IN  client' =
           IF event.name = "connected"
             THEN [client EXCEPT
                     !.delivered = @ + 1,
                     !.sessionId = event.sessionId,
                     !.promise[k] = IF @ = "pending" THEN "resolved" ELSE @]
             ELSE [client EXCEPT !.delivered = @ + 1]
  /\ UNCHANGED <<sockets, connectedClients, processingQueue, calls, out,
                 isProcessing, isAnimating, now, timers, disposals, hooks,
                 server, boot, arg, ret, translation>>

\* attemptReconnect without the test of the counter
attemptReconnect_unguarded(service) ==
  [service EXCEPT !.reconnectAttempts = @ + 1, !.timers = @ + 1]

\* attemptReconnect(): below the limit the counter is incremented and a
\* timeout is set
attemptReconnect(service) ==
  IF service.reconnectAttempts < maxReconnectAttempts
    THEN [service EXCEPT !.reconnectAttempts = @ + 1, !.timers = @ + 1]
    ELSE service

\* socket.on('disconnect'): after 'io server disconnect' the socket stays
\* disconnected and attemptReconnect is called; after another reason the
\* socket reconnects by itself
OnDisconnect(k, reason) ==
  /\ client.conn[k] = "connected"
  /\ client' =
       IF reason = "io server disconnect"
         THEN attemptReconnect([client EXCEPT !.conn[k] = "disconnected"])
         ELSE [client EXCEPT !.conn[k] = "connecting"]
  /\ UNCHANGED <<sockets, connectedClients, processingQueue, calls, out,
                 isProcessing, isAnimating, now, timers, disposals, hooks,
                 server, boot, arg, ret, translation>>

\* a timeout of attemptReconnect fires: this.socket?.connect(), which does
\* nothing for a socket that is connected or connecting
ReconnectTimer ==
  /\ client.timers > 0
  /\ client' =
       IF client.socket # 0 /\ client.conn[client.socket] = "disconnected"
         THEN [client EXCEPT !.timers = @ - 1,
                             !.conn[client.socket] = "connecting"]
         ELSE [client EXCEPT !.timers = @ - 1]
  /\ UNCHANGED <<sockets, connectedClients, processingQueue, calls, out,
                 isProcessing, isAnimating, now, timers, disposals, hooks,
                 server, boot, arg, ret, translation>>

\* one of the four send methods: it emits when the socket is connected
Send(event) ==
  /\ client.socket # 0
  /\ client.conn[client.socket] = "connected"
  /\ client' = [client EXCEPT !.sent = @ \cup {event}]
  /\ UNCHANGED <<sockets, connectedClients, processingQueue, calls, out,
                 isProcessing, isAnimating, now, timers, disposals, hooks,
                 server, boot, arg, ret, translation>>

\* disconnect(): the socket is closed by the client and forgotten
ClientDisconnect ==
  /\ client.socket # 0
  /\ client' = [client EXCEPT !.conn[client.socket] = "disconnected",
                              !.socket = 0,
                              !.sessionId = <<"", "">>]
  /\ UNCHANGED <<sockets, connectedClients, processingQueue, calls, out,
                 isProcessing, isAnimating, now, timers, disposals, hooks,
                 server, boot, arg, ret, translation>>

(***************************************************************************)
(* One call of connect() against the handler: the server accepts the       *)
(* connection, the client handles 'connect' and the server's events, and   *)
(* uses its send methods.                                                  *)
(***************************************************************************)
ServerAccepts(t) ==
  /\ client.conn[1] = "connecting"
  /\ Connect(serverSocket, t)

ConnectNext ==
  \/ ClientConnect(1)
  \/ OnConnectError(1)
  \/ \E t \in Times : ServerAccepts(t)
  \/ sockets[serverSocket] = "open" /\ OnConnect(1)
  \/ OnServerEvent(1)
  \/ \E event \in sendMethods : Send(event)

ConnectSpec == Init /\ [][ConnectNext]_vars

\* the transport delivers and the client runs its handlers
FairConnectSpec ==
  /\ ConnectSpec
  /\ WF_vars(\E t \in Times : ServerAccepts(t))
  /\ WF_vars(sockets[serverSocket] = "open" /\ OnConnect(1))
  /\ WF_vars(OnServerEvent(1))

(***************************************************************************)
(* The sockets of up to MaxSockets calls of connect(), connected,          *)
(* disconnected and reconnected.                                           *)
(***************************************************************************)
ReconnectNext ==
  \/ \E k \in ClientSockets : ClientConnect(k)
  \/ \E k \in ClientSockets : OnConnect(k)
  \/ \E k \in ClientSockets, reason \in Reasons : OnDisconnect(k, reason)
  \/ ReconnectTimer
  \/ ClientDisconnect

ReconnectSpec == Init /\ [][ReconnectNext]_vars

(***************************************************************************)
(* Properties.                                                             *)
(***************************************************************************)
\* the invocation in slot d is suspended at an await
InFlight(d) == calls[d].pc \notin {"free", "done"}

\* the invocation in slot d has returned in the step that led here
Returned(d) == calls[d].pc = "done"

\* the processingQueue key of an invocation
busyKey(call) ==
  IF call.kind = "video-frame" THEN signKey(call.client)
                               ELSE voiceKey(call.client)

eventNames(call) == [ i \in 1..Len(call.emits) |-> call.emits[i].name ]

countOf(call, name) ==
  Cardinality({ i \in 1..Len(call.emits) : call.emits[i].name = name })

\* C1: for every session and each gated category, at most one accepted
\* dispatch of that category is between setting the busy flag and its
\* completion.
C1_SingleFlight ==
  \A c \in DOMAIN sockets, kind \in {"video-frame", "audio-data"} :
    Cardinality({ d \in CallIds : /\ InFlight(d)
                                  /\ calls[d].accepted
                                  /\ calls[d].client = c
                                  /\ calls[d].kind = kind }) <= 1

\* C2: an event that arrives while the busy flag of its category is set is
\* dropped without side effects: no stage is invoked, no event is emitted,
\* and the busy flag, lastActivity and the registry are left unchanged.
C2_DropWithoutEffect ==
  [][ \A d \in CallIds :
        (calls'[d].pc = "done" /\ ~calls'[d].accepted) =>
          /\ calls'[d].stages = {}
          /\ calls'[d].emits = << >>
          /\ processingQueue' = processingQueue
          /\ connectedClients' = connectedClients ]_vars

\* C3: every accepted dispatch leaves its busy flag clear when it returns,
\* on every exit path, and an event that arrives while the flag of its
\* category is clear is accepted; with the stage calls resolving, no dispatch
\* stays suspended for ever and no flag stays set for ever (each is clear
\* again and again).
C3_FlagCleared ==
  /\ [][ \A d \in CallIds :
           (calls'[d].pc = "done" /\ calls'[d].accepted) =>
             ~MapTruthy(processingQueue', busyKey(calls'[d])) ]_vars
  /\ [][ \A d \in CallIds :
           ( /\ calls[d].pc \in {"free", "done"}
             /\ calls'[d].pc # "free"
             /\ calls'[d] # calls[d]
             /\ ~MapTruthy(processingQueue, busyKey(calls'[d])) )
           => calls'[d].accepted ]_vars
  /\ \A d \in CallIds : []<>~InFlight(d)
  /\ \A c \in Clients :
       /\ []<>~MapTruthy(processingQueue, signKey(c))
       /\ []<>~MapTruthy(processingQueue, voiceKey(c))

\* an accepted dispatch returned through its catch block, after textToSpeech
\* rejected, and the gesture flag is clear
C3_Witness ==
  \E d \in CallIds :
    /\ Returned(d) /\ calls[d].accepted
    /\ "textToSpeech" \in calls[d].failed
    /\ ~MapTruthy(processingQueue, busyKey(calls[d]))

\* C4: a video-frame whose observation has a gesture other than 'unknown'
\* and confidence above 0.7, and whose synthesis succeeds, emits exactly
\* sign-detected, avatar-pose-update, translation-result (originalType
\* 'sign') and auto-voice-played, in that order, on its own connection.
C4_HighConfidenceFanOut ==
  \A d \in CallIds :
    LET call == calls[d] IN
    ( /\ Returned(d) /\ call.kind = "video-frame"
      /\ call.signData.present
      /\ call.signData.recognizedGesture \notin {"", "unknown"}
      /\ call.signData.confidence > 70
      /\ "textToSpeech" \notin call.failed )
    => /\ eventNames(call) = << "sign-detected", "avatar-pose-update",
                                "translation-result", "auto-voice-played" >>
       /\ call.emits[3].originalType = "sign"
       /\ \A i \in 1..Len(call.emits) : call.emits[i].to = call.client

\* 'help' at 0.79: the four events of C4 have been emitted
C4_Witness ==
  \E d \in CallIds :
    /\ Returned(d) /\ calls[d].kind = "video-frame"
    /\ calls[d].signData.confidence = 79
    /\ "textToSpeech" \in calls[d].stages
    /\ countOf(calls[d], "auto-voice-played") = 1

\* C5: a video-frame whose observation is 'unknown', has no label or has
\* confidence not above 0.7 never calls the synthesizer, never emits
\* translation-result or auto-voice-played, and returns having emitted
\* exactly sign-detected and avatar-pose-update.
C5_LowConfidenceNoVoice ==
  \A d \in CallIds :
    LET call == calls[d] IN
    ( /\ call.kind = "video-frame"
      /\ call.signData.present
      /\ \/ call.signData.recognizedGesture \in {"", "unknown"}
         \/ call.signData.confidence <= 70 )
    => /\ "textToSpeech" \notin call.stages
       /\ countOf(call, "translation-result") = 0
       /\ countOf(call, "auto-voice-played") = 0
       /\ Returned(d) =>
            eventNames(call) = << "sign-detected", "avatar-pose-update" >>

\* 'help' at exactly 0.7: the dispatch has returned after the pose update
C5_Witness ==
  \E d \in CallIds :
    /\ Returned(d) /\ calls[d].kind = "video-frame"
    /\ calls[d].signData.present
    /\ calls[d].signData.confidence = 70
    /\ countOf(calls[d], "avatar-pose-update") = 1

\* C6: a speech observation (valid audio, the recognizer returned) yields
\* exactly one text-recognized followed by exactly one translation-result
\* with originalType 'voice' and no error; with a gesture in the text the
\* avatar sequence is played before the result, which has confidence 0.85;
\* without one the result has confidence 0.6 and one sign-description
\* follows it.
C6_SpeechFanOut ==
  \A d \in CallIds :
    LET call == calls[d]
        gesture == IF call.text = 0 THEN "" ELSE transcriptionGesture[call.text]
    IN
    (call.kind = "audio-data" /\ call.text # 0) =>
      /\ call.pc = "awaitPlay" =>
           /\ gesture # ""
           /\ "playGestureSequence" \in call.stages
           /\ eventNames(call) = << "text-recognized" >>
      /\ Returned(d) =>
           /\ Len(call.emits) >= 2
           /\ call.emits[1].name = "text-recognized"
           /\ call.emits[2].name = "translation-result"
           /\ call.emits[2].originalType = "voice"
           /\ countOf(call, "text-recognized") = 1
           /\ countOf(call, "translation-result") = 1
           /\ countOf(call, "error") = 0
           /\ IF gesture # ""
                THEN /\ "playGestureSequence" \in call.stages
                     /\ call.emits[2].confidence = 85
                     /\ countOf(call, "sign-description") = 0
                ELSE /\ "playGestureSequence" \notin call.stages
                     /\ call.emits[2].confidence = 60
                     /\ call.emits[2].detail \in
                          {"Spell out", "Sign language representation"}
                     /\ countOf(call, "sign-description") = 1

\* "I need directions to the nearest hospital" has no gesture keyword: the
\* dispatch has returned after the description
C6_Witness ==
  \E d \in CallIds :
    /\ Returned(d) /\ calls[d].kind = "audio-data"
    /\ calls[d].text = 4
    /\ countOf(calls[d], "sign-description") = 1

\* C7: a failure at any stage of a dispatch (perception, avatar, synthesis,
\* recognition) results in exactly one error event, on the connection of
\* the dispatch, with the code of its path.
C7_OneErrorPerFailure ==
  \A d \in CallIds :
    LET call == calls[d] IN
    (Returned(d) /\ call.failed # {}) =>
      /\ countOf(call, "error") = 1
      /\ \A i \in 1..Len(call.emits) :
           call.emits[i].name = "error" =>
             /\ call.emits[i].to = call.client
             /\ call.emits[i].code \in
                  IF call.kind = "video-frame"
                    THEN {"REALISTIC_SIGN_PROCESSING_ERROR",
                          "AUTO_SIGN_TO_VOICE_ERROR"}
                    ELSE {"REALISTIC_VOICE_PROCESSING_ERROR",
                          "AUTO_VOICE_TO_SIGN_ERROR"}

\* C8: when the synthesis of the auto sign-to-voice step fails, the events
\* emitted before it stay, exactly one error follows them, and neither
\* translation-result nor auto-voice-played is emitted.
C8_FanOutIsolation ==
  \A d \in CallIds :
    LET call == calls[d] IN
    (Returned(d) /\ "textToSpeech" \in call.failed) =>
      /\ eventNames(call) = << "sign-detected", "avatar-pose-update", "error" >>
      /\ call.emits[3].code = "AUTO_SIGN_TO_VOICE_ERROR"
      /\ call.emits[3].to = call.client

\* textToSpeech rejected after the detection and the pose were emitted
C8_Witness ==
  \E d \in CallIds :
    /\ Returned(d)
    /\ "textToSpeech" \in calls[d].failed
    /\ countOf(calls[d], "sign-detected") = 1
    /\ countOf(calls[d], "error") = 1

\* the clips the format validation is to reject: no clip or no buffer, a
\* duration outside 0.1 s .. 30 s, an unsupported sample rate, an empty buffer
C9_BadClip(data) ==
  \/ ~data.present
  \/ ~data.hasBuffer
  \/ data.duration < 100
  \/ data.duration > 30000
  \/ data.sampleRate \notin {16000, 22050, 44100, 48000}
  \/ data.byteLength <= 0

\* C9: an audio-data event whose clip fails format validation never reaches
\* the recognizer: it returns at once with exactly one error, code
\* AUDIO_FORMAT_ERROR, and the speech flag is clear afterwards.
C9_InvalidAudioRejected ==
  \A d \in CallIds :
    LET call == calls[d] IN
    (call.kind = "audio-data" /\ call.accepted /\ C9_BadClip(call.data)) =>
      /\ Returned(d)
      /\ call.stages = {}
      /\ eventNames(call) = << "error" >>
      /\ call.emits[1].code = "AUDIO_FORMAT_ERROR"
      /\ ~MapTruthy(processingQueue, voiceKey(call.client))

\* a clip of 44.1 kHz whose buffer is empty has been rejected
C9_Witness ==
  \E d \in CallIds :
    /\ Returned(d) /\ calls[d].kind = "audio-data" /\ calls[d].accepted
    /\ calls[d].data.hasBuffer /\ calls[d].data.byteLength = 0
    /\ countOf(calls[d], "error") = 1

\* C10: a video-frame for which processFrame returns no result emits no
\* event at all, and the gesture flag is clear afterwards.
C10_NoResultNoEvent ==
  \A d \in CallIds :
    LET call == calls[d] IN
    ( /\ Returned(d) /\ call.kind = "video-frame"
      /\ "processFrame" \in call.stages
      /\ ~call.signData.present )
    => /\ call.emits = << >>
       /\ ~MapTruthy(processingQueue, signKey(call.client))

\* processFrame detected no gesture and the dispatch has returned
C10_Witness ==
  \E d \in CallIds :
    /\ Returned(d) /\ calls[d].kind = "video-frame"
    /\ calls[d].stages = {"processFrame"}
    /\ calls[d].failed = {}
    /\ calls[d].emits = << >>

\* C11: after the disconnect handler of a connection has run, the registry
\* has no entry for the connection and the busy-flag map has no key for it,
\* in that state and in every later one.
C11_DisconnectLeavesNothing ==
  \A c \in DOMAIN sockets :
    sockets[c] = "closed" =>
      /\ c \notin DOMAIN connectedClients
      /\ signKey(c) \notin DOMAIN processingQueue
      /\ voiceKey(c) \notin DOMAIN processingQueue

\* C12: a disconnect does not abort a dispatch in flight: the disconnect
\* step leaves every suspended invocation as it is, an invocation of the
\* closed connection stays until it returns and does return, and every
\* event it emits after the disconnect is addressed to its own, closed,
\* socket (where socket.io delivers nothing) and to no other connection.
C12_DisconnectSafety ==
  /\ [][ \A c \in DOMAIN sockets :
           (sockets[c] = "open" /\ sockets'[c] = "closed") =>
             \A d \in CallIds : InFlight(d) => calls'[d] = calls[d] ]_vars
  /\ [][ \A d \in CallIds :
           (InFlight(d) /\ sockets[calls[d].client] = "closed") =>
             /\ calls'[d].pc # "free"
             /\ calls'[d].client = calls[d].client
             /\ Len(calls'[d].emits) >= Len(calls[d].emits)
             /\ \A i \in 1..Len(calls'[d].emits) :
                  IF i <= Len(calls[d].emits)
                    THEN calls'[d].emits[i] = calls[d].emits[i]
                    ELSE /\ calls'[d].emits[i].to = calls[d].client
                         /\ sockets'[calls'[d].emits[i].to] = "closed" ]_vars
  /\ \A d \in CallIds :
       []<>~(InFlight(d) /\ sockets[calls[d].client] = "closed")

\* a video-frame dispatch has returned on the closed connection, having
\* emitted its pose update after the disconnect
C12_Witness ==
  \E d \in CallIds :
    /\ Returned(d)
    /\ sockets[calls[d].client] = "closed"
    /\ eventNames(calls[d]) = << "sign-detected", "avatar-pose-update" >>

\* C19: the connection handler registers the session under the connection
\* id and emits, in the same step, exactly one system-ready event that
\* carries the registered sessionId, the gesture vocabulary and the voice
\* list; a connection that has not connected has received nothing, and
\* system-ready is the first event of every connection: no handler
\* invocation has emitted on a connection without it, and none emits a
\* system-ready of its own.
C19_SystemReadyFirst ==
  /\ [][ \A c \in DOMAIN sockets :
           (sockets[c] = "new" /\ sockets'[c] # "new") =>
             /\ c \notin DOMAIN connectedClients
             /\ c \in DOMAIN connectedClients'
             /\ connectedClients'[c].sessionId # NoSession
             /\ out[c] = << >>
             /\ Len(out'[c]) = 1
             /\ out'[c][1].name = "system-ready"
             /\ out'[c][1].to = c
             /\ out'[c][1].sessionId = connectedClients'[c].sessionId
             /\ [ i \in 1..Len(out'[c][1].supportedGestures) |->
                    out'[c][1].supportedGestures[i].name ] = aslGestureNames
             /\ out'[c][1].availableVoices # << >>
             /\ out'[c][1].availableVoices = getAvailableVoices ]_vars
  /\ [](\A c \in Clients :
          /\ sockets[c] = "new" =>
               /\ out[c] = << >>
               /\ \A d \in CallIds : calls[d].pc # "free" => calls[d].client # c
          /\ sockets[c] # "new" =>
               /\ out[c] # << >>
               /\ out[c][1].name = "system-ready"
               /\ Cardinality({ i \in 1..Len(out[c]) :
                                  out[c][i].name = "system-ready" }) = 1
          /\ \A d \in CallIds :
               (calls[d].pc # "free" /\ calls[d].client = c) =>
                 \A i \in 1..Len(calls[d].emits) :
                   calls[d].emits[i].name # "system-ready")

\* a connection has its system-ready and a handler has emitted after it
C19_Witness ==
  \E c \in DOMAIN sockets, d \in CallIds :
    /\ sockets[c] = "open"
    /\ out[c][1].name = "system-ready"
    /\ out[c][1].sessionId = connectedClients[c].sessionId
    /\ calls[d].pc # "free"
    /\ calls[d].client = c
    /\ calls[d].emits # << >>

\* the events a handler emits with a sessionId in the payload
sessionEvents == {"sign-detected", "text-recognized", "translation-result"}

\* C20: while a connection is registered its sessionId is the one its
\* system-ready carried and no step changes it, and every sign-detected,
\* text-recognized and translation-result event emitted on the connection
\* carries exactly that id.
C20_SessionIdStable ==
  /\ [][ \A c \in DOMAIN connectedClients :
           c \in DOMAIN connectedClients' =>
             connectedClients'[c].sessionId = connectedClients[c].sessionId ]_vars
  /\ [](\A c \in Clients :
          /\ c \in DOMAIN connectedClients =>
               connectedClients[c].sessionId = out[c][1].sessionId
          /\ \A d \in CallIds :
               (calls[d].pc # "free" /\ calls[d].client = c) =>
                 \A i \in 1..Len(calls[d].emits) :
                   calls[d].emits[i].name \in sessionEvents =>
                     /\ calls[d].emits[i].sessionId # NoSession
                     /\ calls[d].emits[i].sessionId = out[c][1].sessionId)

\* a video-frame dispatch has emitted sign-detected and translation-result,
\* and an audio-data dispatch text-recognized, on a registered connection
\* whose activity time has been updated since it connected
C20_Witness ==
  \E c \in DOMAIN connectedClients, d \in CallIds, e \in CallIds :
    /\ calls[d].pc # "free" /\ calls[d].client = c
    /\ calls[e].pc # "free" /\ calls[e].client = c
    /\ countOf(calls[d], "sign-detected") = 1
    /\ countOf(calls[d], "translation-result") = 1
    /\ countOf(calls[e], "text-recognized") = 1
    /\ connectedClients[c].lastActivity > 0

\* the health-check events among the events of `seq`
healthCheckCount(seq) ==
  Cardinality({ i \in 1..Len(seq) : seq[i].name = "health-check" })

\* C13: a step is a tick of a registered connection exactly when it appends
\* one health-check to the events of that connection, and the event reports
\* the size of the registry and the connection's two busy flags as they are
\* at the tick; no other step emits a health-check and no handler invocation
\* does; a connection that is not registered gets no further health-check,
\* and the tick of its timer only clears the timer, which stays cleared.
C13_HealthChecks ==
  /\ [][ \A c \in DOMAIN sockets :
           /\ out'[c] # out[c] /\ sockets[c] # "new" =>
                /\ timers[c] = "running"
                /\ c \in DOMAIN connectedClients
                /\ Len(out'[c]) = Len(out[c]) + 1
                /\ SubSeq(out'[c], 1, Len(out[c])) = out[c]
                /\ healthCheckCount(out'[c]) = healthCheckCount(out[c]) + 1
                /\ LET e == out'[c][Len(out'[c])] IN
                     /\ e.name = "health-check"
                     /\ e.to = c
                     /\ e.connectedClients = Cardinality(DOMAIN connectedClients)
                     /\ e.connectedClients >= 1
                     /\ e.signProcessing = MapTruthy(processingQueue, signKey(c))
                     /\ e.voiceProcessing = MapTruthy(processingQueue, voiceKey(c))
                /\ timers'[c] = "running"
           /\ c \notin DOMAIN connectedClients =>
                /\ healthCheckCount(out'[c]) = healthCheckCount(out[c])
                /\ timers[c] = "cleared" => timers'[c] = "cleared"
           /\ timers'[c] # timers[c] /\ sockets[c] # "new" =>
                /\ c \notin DOMAIN connectedClients
                /\ timers[c] = "running"
                /\ timers'[c] = "cleared"
                /\ out'[c] = out[c] ]_vars
  /\ [](\A c \in Clients :
          /\ healthCheckCount(out[c]) = Len(out[c]) - (IF out[c] = << >> THEN 0 ELSE 1)
          /\ c \in DOMAIN connectedClients => timers[c] = "running"
          /\ \A d \in CallIds :
               calls[d].pc # "free" =>
                 \A i \in 1..Len(calls[d].emits) :
                   calls[d].emits[i].name # "health-check")

\* the connection has received two health-checks, the later one while both
\* of its flags were set, and its timer has cancelled itself after the
\* disconnect
C13_Witness ==
  \E c \in DOMAIN sockets :
    /\ sockets[c] = "closed"
    /\ timers[c] = "cleared"
    /\ healthCheckCount(out[c]) = 2
    /\ out[c][Len(out[c])].signProcessing
    /\ out[c][Len(out[c])].voiceProcessing
    /\ ~out[c][Len(out[c]) - 1].signProcessing

\* slot d takes a new handler invocation in this step: an inbound event
Dispatched(d) ==
  /\ calls[d].pc \in {"free", "done"}
  /\ calls'[d].pc # "free"

\* C14: an inbound event on a connection that has no session in the registry
\* is ignored: its handler calls no stage, emits nothing and returns at once,
\* and the step changes neither the busy-flag map nor the registry.
C14_UnregisteredIgnored ==
  [][ \A d \in CallIds :
        (Dispatched(d) /\ calls'[d].client \notin DOMAIN connectedClients) =>
          /\ calls'[d].pc = "done"
          /\ calls'[d].stages = {}
          /\ calls'[d].emits = << >>
          /\ processingQueue' = processingQueue
          /\ connectedClients' = connectedClients ]_vars

\* dispose() has been called / a call of dispose() has completed
DisposeStarted == \E i \in DisposeIds : disposals[i] # "free"

DisposeCompleted == \E i \in DisposeIds : disposals[i] = "disposed"

\* C15: once dispose() has started, an inbound event starts no dispatch (its
\* handler sets no flag, calls no stage and emits nothing), and once a call
\* of dispose() has completed the registry and the busy-flag map are empty.
C15_TeardownStopsWork ==
  /\ [][ DisposeStarted =>
           \A d \in CallIds :
             Dispatched(d) =>
               /\ ~calls'[d].accepted
               /\ calls'[d].stages = {}
               /\ calls'[d].emits = << >> ]_vars
  /\ [](DisposeCompleted =>
          /\ DOMAIN connectedClients = {}
          /\ DOMAIN processingQueue = {})

\* C16: no disposal hook is called more than once in the life of the
\* process, a signal handler calls the three hooks in one step, and when a
\* call of dispose() has completed every hook has been called and has
\* completed.
C16_HooksOnce ==
  /\ [](\A s \in Stages :
          /\ hooks[s].called <= 1
          /\ hooks[s].completed <= hooks[s].called)
  /\ [](DisposeCompleted =>
          \A s \in Stages : hooks[s].called >= 1 /\ hooks[s].completed >= 1)
  /\ [][ \A s, u \in Stages :
           hooks'[s].called - hooks[s].called
             = hooks'[u].called - hooks[u].called ]_vars

\* C17: every inbound event that starts a dispatch (an accepted video-frame
\* or audio-data event, or a play-gesture, speak-text, request-translation
\* or customize-avatar event) on a registered connection leaves the
\* connection's lastActivity at the clock reading of the step, and no step
\* other than the connection's own inbound events changes its lastActivity.
C17_ActivityOnEveryEvent ==
  /\ [][ \A d \in CallIds :
           ( /\ Dispatched(d)
             /\ calls'[d].accepted \/ calls'[d].kind \in UngatedKinds
             /\ calls'[d].client \in DOMAIN connectedClients' ) =>
             connectedClients'[calls'[d].client].lastActivity = now' ]_vars
  /\ [][ \A c \in DOMAIN connectedClients :
           ( /\ c \in DOMAIN connectedClients'
             /\ connectedClients'[c].lastActivity # connectedClients[c].lastActivity ) =>
             \E d \in CallIds : Dispatched(d) /\ calls'[d].client = c ]_vars

\* C18: while a connection is open each of the four events starts its
\* dispatch whatever the busy flags are; the step that starts it and every
\* later step of the dispatch leave the busy-flag map as it is, and the
\* event is never dropped: its handler calls a stage or emits.
C18_UngatedHandlers ==
  /\ [](\A c \in Clients :
          (sockets[c] = "open" /\ HasFreeSlot) =>
            /\ ENABLED PlayGesture(c, "hello")
            /\ ENABLED SpeakText(c, 1)
            /\ ENABLED RequestTranslation(c, 1, "voice")
            /\ ENABLED RequestTranslation(c, 1, "sign")
            /\ ENABLED CustomizeAvatar(c, TRUE, now))
  /\ [][ \A d \in CallIds :
           (Dispatched(d) /\ calls'[d].kind \in UngatedKinds) =>
             /\ processingQueue' = processingQueue
             /\ calls'[d].stages # {} \/ calls'[d].emits # << >> ]_vars
  /\ [][ \A d \in CallIds :
           ( /\ InFlight(d)
             /\ calls[d].kind \in UngatedKinds
             /\ calls'[d] # calls[d] ) =>
             processingQueue' = processingQueue ]_vars

\* a play-gesture dispatch and a video-frame dispatch of one connection are
\* in flight together, the sign flag of the connection set
C18_Witness ==
  \E d \in CallIds, e \in CallIds :
    /\ InFlight(d) /\ calls[d].kind = "video-frame"
    /\ InFlight(e) /\ calls[e].kind = "play-gesture"
    /\ calls[d].client = calls[e].client
    /\ MapTruthy(processingQueue, signKey(calls[d].client))
    /\ calls[e].stages # {}

\* the outbound event names of the specification
OutboundEvents ==
  { "system-ready", "sign-detected", "avatar-pose-update", "text-recognized",
    "translation-result", "auto-voice-played", "gesture-played",
    "speech-generated", "avatar-gesture", "sign-description",
    "avatar-customized", "health-check", "error" }

\* C21: every event emitted, at connect, by a tick or by a handler
\* invocation, has a name of the outbound set, and every error event
\* carries its code.
C21_OutboundNames ==
  /\ \A c \in DOMAIN out :
       \A i \in 1..Len(out[c]) : out[c][i].name \in OutboundEvents
  /\ \A d \in CallIds :
       calls[d].pc # "free" =>
         \A i \in 1..Len(calls[d].emits) :
           /\ calls[d].emits[i].name \in OutboundEvents
           /\ calls[d].emits[i].name = "error" => calls[d].emits[i].code # ""

(***************************************************************************)
(* Claims on the functions applied by themselves (PureSpec).               *)
(***************************************************************************)
applied(fn) == arg.fn = fn /\ ret.fn = fn

isKey(word) == \E i \in 1..Len(wordToGestureMap) : wordToGestureMap[i].key = word

isPartOrWhole(word) ==
  \E i \in 1..Len(wordToGestureMap) :
     \/ includes(wordToGestureMap[i].key, word)
     \/ includes(word, wordToGestureMap[i].key)

scoreOf(word) ==
  IF isKey(word) THEN ExactScore
  ELSE IF isPartOrWhole(word) THEN PartialScore
  ELSE FingerspellScore

RECURSIVE sumOfScores(_)
sumOfScores(words) ==
  IF words = << >> THEN 0 ELSE scoreOf(Head(words)) + sumOfScores(Tail(words))

fingerspelled(animations) ==
  Cardinality({ i \in 1..Len(animations) : animations[i] = "fingerspell" })

helloText == <<"h","e","l","l","o">>
noMatchText == <<"x","y","z","z","y","q","q">>

\* C22: a result of textToSign has one score per token of the lower-cased
\* text (exact key 0.9, else substring of or containing a key 0.6, else
\* fingerspelling 0.4), its confidence is their mean and lies in [0,1], and
\* it has one fingerspelling animation per token without a match; a token
\* without a match always gives a result; 'hello' gives at least 0.9 and a
\* non-empty sequence, 'xyzzyqq' gives 0.4 and a fingerspelling animation.
C22_TextToSignScores ==
  applied("textToSign") =>
    LET words == splitWhitespace(toLowerCase(arg.text))
        unmatched == { i \in 1..Len(words) :
                         ~isKey(words[i]) /\ ~isPartOrWhole(words[i]) }
    IN  /\ ~ret.null =>
             /\ ret.matchCount = Len(words)
             /\ ret.sum = sumOfScores(words)
             /\ 0 <= ret.sum /\ ret.sum <= FullConfidence * ret.matchCount
             /\ fingerspelled(ret.animations) = Cardinality(unmatched)
        /\ unmatched # {} => ~ret.null
        /\ arg.text = helloText =>
             /\ ~ret.null
             /\ ret.sum >= ExactScore * ret.matchCount
             /\ ret.animations # << >>
        /\ arg.text = noMatchText =>
             /\ ~ret.null
             /\ ret.sum = FingerspellScore * ret.matchCount
             /\ ret.animations = <<"fingerspell">>

\* an exact token and a token without a match in one text
C22_Witness ==
  /\ applied("textToSign")
  /\ ~ret.null
  /\ ret.matchCount = 2
  /\ ret.sum = ExactScore + FingerspellScore
  /\ ret.animations = <<"wave", "fingerspell">>

blank(text) == \A i \in 1..Len(text) : text[i] \in whitespace

\* C23: textToSign of an empty or whitespace-only text returns null: no
\* animation sequence and no confidence.
C23_BlankGivesNull ==
  (applied("textToSign") /\ blank(arg.text)) =>
    /\ ret.null
    /\ ret.animations = << >>
    /\ ret.sum = 0

\* C24: textToSign returns null for blank input only: a text with at least
\* one token that is not empty has a result with a non-empty animation
\* sequence.
C24_NullOnlyForBlank ==
  (applied("textToSign") /\ ~blank(arg.text)) =>
    /\ ~ret.null
    /\ ret.animations # << >>

keywordFound(i, text) == includes(toLowerCase(text), gestureKeywords[i].keyword)

\* C25: the gesture extracted from a text is that of the first entry of the
\* keyword list, in the order of the list, whose keyword is a substring of
\* the lower-cased text; 'thank you so much' gives 'thank_you'.
C25_FirstKeywordWins ==
  applied("extractGestureFromText") =>
    /\ \A i \in 1..Len(gestureKeywords) :
         ( /\ keywordFound(i, arg.text)
           /\ \A j \in 1..(i - 1) : ~keywordFound(j, arg.text) )
         => ret.gesture = gestureKeywords[i].gesture
    /\ arg.text = thankYouSoMuch => ret.gesture = "thank_you"

\* a text with keywords of two gestures, resolved to the earlier one
C25_Witness ==
  /\ applied("extractGestureFromText")
  /\ \E i, j \in 1..Len(gestureKeywords) :
       /\ i < j
       /\ keywordFound(i, arg.text)
       /\ keywordFound(j, arg.text)
       /\ gestureKeywords[i].gesture # gestureKeywords[j].gesture
       /\ ret.gesture = gestureKeywords[i].gesture
       /\ \A k \in 1..(i - 1) : ~keywordFound(k, arg.text)

inSequence(names, name) == \E i \in 1..Len(names) : names[i] = name

\* C26: getGestureDescription returns a non-empty description for every
\* name of the vocabulary and exactly 'Unknown gesture' for every other
\* name, in the service the handler uses and in the earlier service.
C26_DescriptionTotal ==
  /\ applied("getGestureDescription") =>
       IF inSequence(aslGestureNames, arg.gesture)
         THEN ret.description # ""
         ELSE ret.description = "Unknown gesture"
  /\ applied("signVocabularyDescription") =>
       IF inSequence(signVocabularyNames, arg.gesture)
         THEN ret.description # ""
         ELSE ret.description = "Unknown gesture"

\* a name outside the vocabulary has been described
C26_Witness ==
  /\ applied("getGestureDescription")
  /\ ~inSequence(aslGestureNames, arg.gesture)
  /\ ret.description = "Unknown gesture"

(***************************************************************************)
(* Claims on the startup (StartSpec).                                      *)
(***************************************************************************)
\* C27: a connection exists, an event has been emitted or a handler runs
\* only when the three stages are initialized; the handlers are installed
\* and the server listens only then; a failed initialization leaves the
\* process exited with code 1, with no handlers and never listening.
C27_StartupOrder ==
  /\ ( \/ \E c \in DOMAIN sockets : sockets[c] # "new" \/ out[c] # << >>
       \/ \E d \in CallIds : calls[d].pc # "free"
       \/ connectedClients # EmptyMap )
     => boot.initialized = Stages
  /\ boot.handlers => boot.initialized = Stages
  /\ server = "listening" => boot.handlers
  /\ boot.failed # {} =>
       /\ boot.pc = "exit1"
       /\ server = "exited"
       /\ ~boot.handlers
  /\ boot.pc = "exit1" => boot.failed # {}

\* the voice service failed to initialize after the other two succeeded
C27_Witness ==
  /\ boot.pc = "exit1"
  /\ boot.failed = {"voiceService"}
  /\ boot.initialized = immediateStages
  /\ server = "exited"

(***************************************************************************)
(* Claims on the busy flags (Spec, PairSpec).                              *)
(***************************************************************************)
\* C28: while an accepted video-frame or audio-data invocation of a
\* connected session is suspended at a stage call, the busy flag of its
\* session and category is set, whatever else has arrived on the session
\* since.
C28_FlagHeldWhileUnresolved ==
  \A d \in CallIds :
    ( /\ InFlight(d)
      /\ calls[d].accepted
      /\ sockets[calls[d].client] = "open" ) =>
      /\ busyKey(calls[d]) \in DOMAIN processingQueue
      /\ processingQueue[busyKey(calls[d])]

\* C29: a video-frame or audio-data event is dropped only when an accepted
\* invocation of the same session and the same category is suspended at a
\* stage call: an invocation of another session, or of the other category of
\* the same session, never makes an event drop.
C29_DropsOwnCategoryOnly ==
  [][ \A d \in CallIds :
        (Dispatched(d) /\ ~calls'[d].accepted) =>
          \E e \in CallIds :
             /\ InFlight(e)
             /\ calls[e].accepted
             /\ calls[e].client = calls'[d].client
             /\ calls[e].kind = calls'[d].kind ]_vars

\* two sessions, each with an accepted invocation of the same category
\* suspended at a stage call and its own flag set
C29_Witness ==
  \E d, e \in CallIds :
     /\ InFlight(d) /\ calls[d].accepted
     /\ InFlight(e) /\ calls[e].accepted
     /\ calls[d].client # calls[e].client
     /\ calls[d].kind = calls[e].kind
     /\ processingQueue[busyKey(calls[d])]
     /\ processingQueue[busyKey(calls[e])]

(***************************************************************************)
(* Claims on request-translation (UngatedSpec).                            *)
(***************************************************************************)
\* C30: a returned request-translation invocation has emitted exactly one
\* of translation-result and error; to the target 'sign', when textToSign
\* has no result it has emitted one translation-result with originalType
\* 'voice', the text 'Sign representation: ...' and confidence 0.7 and no
\* error, and when the text has a gesture it has emitted one avatar-gesture
\* just before the translation-result.
C30_TranslationOutcome ==
  \A d \in CallIds :
    LET call == calls[d] IN
    (Returned(d) /\ call.kind = "request-translation") =>
      /\ countOf(call, "translation-result") + countOf(call, "error") = 1
      /\ (call.targetType = "sign" /\ call.text # 0) =>
           LET last == call.emits[Len(call.emits)] IN
           /\ countOf(call, "error") = 0
           /\ last.name = "translation-result"
           /\ last.originalType = "voice"
           /\ payloadSign[call.text].null =>
                /\ last.confidence = NoSignConfidence
                /\ last.detail = "Sign representation"
           /\ IF extractGestureFromText(payloadTexts[call.text]) # ""
                THEN /\ eventNames(call) =
                          << "avatar-gesture", "translation-result" >>
                     /\ call.emits[1].gesture =
                          extractGestureFromText(payloadTexts[call.text])
                ELSE eventNames(call) = << "translation-result" >>

\* 'goodbye' to the target 'sign': textToSign has no result, the gesture
\* goodbye is played and the degraded result follows it
C30_Witness ==
  \E d \in CallIds :
    /\ Returned(d) /\ calls[d].kind = "request-translation"
    /\ calls[d].targetType = "sign"
    /\ calls[d].text = Len(payloadTexts)
    /\ payloadSign[calls[d].text].null
    /\ eventNames(calls[d]) = << "avatar-gesture", "translation-result" >>
    /\ calls[d].emits[2].confidence = NoSignConfidence

noKeywordFound(text) == \A i \in 1..Len(gestureKeywords) : ~keywordFound(i, text)

numberFound(i, text) ==
  \/ includes(toLowerCase(text), numbers[i])
  \/ includes(toLowerCase(text), digitStrings[i])

letterFound(i, text) ==
  \/ includes(toLowerCase(text), <<"l","e","t","t","e","r"," ">> \o <<letters[i]>>)
  \/ toLowerCase(text) = <<letters[i]>>

\* C31: for a text without a keyword, the gesture extracted is the first
\* number from zero to ten whose word or digits the text includes; without
\* a number it is the first letter of the list that the text is or that
\* follows 'letter ' in it; without that it is null.
C31_NumbersThenLetters ==
  (applied("extractGestureFromText") /\ noKeywordFound(arg.text)) =>
    IF \E i \in 1..Len(numbers) : numberFound(i, arg.text)
      THEN \E i \in 1..Len(numbers) :
              /\ numberFound(i, arg.text)
              /\ \A j \in 1..(i - 1) : ~numberFound(j, arg.text)
              /\ ret.gesture = numberNames[i]
    ELSE IF \E i \in 1..Len(letters) : letterFound(i, arg.text)
      THEN \E i \in 1..Len(letters) :
              /\ letterFound(i, arg.text)
              /\ \A j \in 1..(i - 1) : ~letterFound(j, arg.text)
              /\ ret.gesture = letters[i]
    ELSE ret.gesture = ""

\* '10' includes the digits of zero, one and ten: the result is zero
C31_Witness ==
  /\ applied("extractGestureFromText")
  /\ noKeywordFound(arg.text)
  /\ numberFound(1, arg.text) /\ numberFound(2, arg.text)
  /\ numberFound(11, arg.text)
  /\ ret.gesture = "zero"

\* C36: for every keyword of the list, the gesture extracted from the
\* keyword itself is the gesture the list assigns to it.
C36_KeywordReachable ==
  applied("extractGestureFromText") =>
    \A i \in 1..Len(gestureKeywords) :
       arg.text = gestureKeywords[i].keyword =>
         ret.gesture = gestureKeywords[i].gesture

(***************************************************************************)
(* Claims on signToText (SignSpec).                                        *)
(***************************************************************************)
\* C33: signToText returns null for an observation without a hand or with
\* fewer than 63 coordinates in its first hand, and for a gesture without a
\* phrase; otherwise it returns the phrase of the gesture with the smaller
\* of the classifier's and the declared confidence.
C33_SignToTextResult ==
  translation.called =>
    LET signData == translation.signData
        result == translation.result
        gesture == recognizeGestureFromLandmarks(signData)
    IN  IF signData.hands = 0 \/ signData.coordinates < handCoordinates
          THEN result.null
        ELSE IF gesture.gesture \notin DOMAIN gestureToText
          THEN result.null
        ELSE /\ ~result.null
             /\ result.text = gestureToText[gesture.gesture]
             /\ result.confidence <= gesture.confidence
             /\ result.confidence <= signData.confidence
             /\ result.confidence \in {gesture.confidence, signData.confidence}

\* a declared confidence below the classifier's is the one returned
C33_Witness ==
  /\ translation.called
  /\ ~translation.result.null
  /\ translation.result.text = "Hello"
  /\ translation.result.confidence = translation.signData.confidence
  /\ translation.signData.confidence < HelloShapeConfidence

\* C34: after a call of signToText has returned, the buffer holds no entry
\* that is older than the window.
C34_BufferPruned ==
  translation.called =>
    \A i \in 1..Len(translation.gestureSequenceBuffer) :
       translation.now - translation.gestureSequenceBuffer[i].timestamp
         < sequenceTimeoutMs

Histories ==
  UNION { [ 1..n -> [gesture : {"hello", "unknown"},
                     timestamp : {0, translation.now}] ] : n \in 0..MaxBuffer }

\* C37: the result of a call is the result the same observation has, at the
\* same clock readings, on every other buffer of earlier entries.
C37_HistoryIrrelevant ==
  translation.called =>
    \A buffer \in Histories :
       \A pushed \in {translation.now - 1, translation.now} :
          pushed >= 0 =>
            signToText(buffer, translation.signData, pushed,
                       translation.now).result = translation.result

\* a phrase returned with an earlier entry of another gesture in the buffer
C37_Witness ==
  /\ translation.called
  /\ ~translation.result.null
  /\ Len(translation.gestureSequenceBuffer) = 2
  /\ translation.gestureSequenceBuffer[1].gesture # translation.result.gesture

(***************************************************************************)
(* Claims on the lookup tables (PureSpec).                                 *)
(***************************************************************************)
wordsOf(text) == splitWhitespace(toLowerCase(text))

\* C32: every gesture of the word map is a key of the sign dictionary and
\* no application of textToSign reads the animations of a missing entry;
\* every label of processFrame has a phrase, and every other name gets the
\* fallback phrase; a name extracted from a text that is looked up in the
\* vocabulary gives its description or 'Unknown gesture', never nothing.
C32_LookupsTotal ==
  /\ \A i \in 1..Len(wordToGestureMap) :
       wordToGestureMap[i].gesture \in DOMAIN signLanguageDictionary
  /\ applied("textToSign") => ~textToSignThrows(wordsOf(arg.text))
  /\ \A i \in 1..Len(aslGestureNames) :
       /\ aslGestureNames[i] \in signToVoiceTranslations
       /\ voiceTextOf(aslGestureNames[i]) = "phrase"
  /\ \A gesture \in extractedGestures :
       voiceTextOf(gesture) \in {"phrase", "I see the gesture"}
  /\ (applied("extractGestureFromText") /\ ret.gesture # "") =>
       ret.gesture \in extractedGestures
  /\ (applied("getGestureDescription") /\ arg.gesture \in extractedGestures) =>
       IF arg.gesture \in DOMAIN aslGestures
         THEN ret.description = aslGestures[arg.gesture].description
         ELSE ret.description = "Unknown gesture"

\* a word that is no key but part of one has had the entry of its partial
\* match read, and the text has its animations
C32_Witness ==
  /\ applied("textToSign")
  /\ ~ret.null
  /\ \E i \in 1..Len(wordsOf(arg.text)) :
       LET word == wordsOf(arg.text)[i]
       IN  /\ wordToGesture(word) = ""
           /\ findPartialGestureMatch(word) \in DOMAIN signLanguageDictionary

(***************************************************************************)
(* Claims on the avatar (AvatarSpec).                                      *)
(***************************************************************************)
Poses == {"default", "generic", "animation"}

unusable(landmarks) ==
  landmarks.hands = 0 \/ landmarks.coordinates < poseCoordinates

lastEmitted(call) ==
  IF call.emits = << >> THEN "" ELSE call.emits[Len(call.emits)].name

\* the step of slot d in which playGestureSequence resolves
PlayResolves(d) ==
  /\ calls[d].pc = "pgPlay"
  /\ calls'[d].pc # "pgPlay"

inProcessingSection == { d \in CallIds : calls[d].pc \in {"awaitTTS", "awaitSTT"} }

\* C38: at most one call of speechToText or textToSpeech is in its
\* processing section, and isProcessing is true exactly while one is.
C38_SingleFlight ==
  /\ Cardinality(inProcessingSection) <= 1
  /\ isProcessing <=> inProcessingSection # {}

(***************************************************************************)
(* Claims on the frontend's WebSocketService (FairConnectSpec,             *)
(* ReconnectSpec).                                                         *)
(***************************************************************************)
\* C39: once the socket of connect() is connected to the handler, the
\* promise of connect() is eventually resolved with the session id the
\* server gave the connection, and every event the client has sent has a
\* handler on the server.
C39_ConnectResolves ==
  /\ (client.conn[1] = "connected" /\ client.promise[1] = "pending")
       ~> ( /\ client.promise[1] = "resolved"
            /\ serverSocket \in DOMAIN connectedClients
            /\ client.sessionId = connectedClients[serverSocket].sessionId )
  /\ [](client.sent \subseteq socketHandlers)

\* the step in which a timeout of attemptReconnect is set
ReconnectScheduled == client'.timers > client.timers

\* C40: the counter never exceeds maxReconnectAttempts; a timeout is set
\* only by the disconnect handler after 'io server disconnect' with the
\* counter below the limit, which it increments; every 'connect' puts the
\* counter back to 0.
C40_ReconnectBounded ==
  /\ [](client.reconnectAttempts <= maxReconnectAttempts)
  /\ [][ /\ ReconnectScheduled =>
              /\ \E k \in ClientSockets : OnDisconnect(k, "io server disconnect")
              /\ client.reconnectAttempts < maxReconnectAttempts
              /\ client'.reconnectAttempts = client.reconnectAttempts + 1
         /\ (\E k \in ClientSockets : /\ client.conn[k] # "connected"
                                      /\ client'.conn[k] = "connected") =>
              client'.reconnectAttempts = 0
       ]_vars

\* the counter is at the limit, and of six sockets the server has
\* disconnected only five have set a timeout
C40_Witness ==
  /\ client.reconnectAttempts = maxReconnectAttempts
  /\ client.timers = maxReconnectAttempts
  /\ Cardinality({ k \in ClientSockets : client.conn[k] = "disconnected" })
       > maxReconnectAttempts
=============================================================================
